---------------------------- MODULE Spec2Model ----------------------------
(***************************************************************************)
(* GATRA request admission: the CII trust policy engine                    *)
(* (lib/cii-trust-policy, src/unnamed/part_000) and the A2A JSON-RPC task  *)
(* engine (api/a2a, src/unnamed/part_001 lines 545-1038).                  *)
(*                                                                         *)
(* Text is modelled as a sequence of characters, each character a          *)
(* one-token string ("M", "m", ".", "1"); "sz" stands for U+00DF, whose    *)
(* upper-case form is the two characters "SS".  A score is an integer      *)
(* number of 10^-7 points, so 34.0000001 is 340000001.                     *)
(***************************************************************************)
EXTENDS Integers, Sequences, FiniteSets, TLC

VARIABLES
    COUNTRY_CII_OVERRIDES,  \* the score table: upper-case code -> score
    call,                   \* the last call of an exported policy function
    tasks,                  \* the task Map, as its entries in insertion order
    uidCount,               \* how many task ids uid() has handed out
    now,                    \* the clock read by new Date()
    response,               \* the last request and the handler's answer to it
    authMode,               \* the authentication mode read at boot
    rateWindows,            \* client -> the start and count of its rate window
    nonces,                 \* replay store: nonce -> arrival time
    inflight                \* slot -> the request in flight there and its position

vars == <<COUNTRY_CII_OVERRIDES, call, tasks, uidCount, now, response,
          authMode, rateWindows, nonces, inflight>>

policyVars == <<COUNTRY_CII_OVERRIDES, call>>
taskVars == <<tasks, uidCount, now, response>>
gateVars == <<authMode, rateWindows, nonces>>
flightVars == <<inflight>>

-----------------------------------------------------------------------------
(* Values *)

Unit == 10^7
Tenths(t) == t * 10^6

Null == <<>>
Some(v) == <<v>>

STANDARD == "STANDARD"
ELEVATED == "ELEVATED"
CRITICAL == "CRITICAL"

Lowers == <<"a","b","c","d","e","f","g","h","i","j","k","l","m",
            "n","o","p","q","r","s","t","u","v","w","x","y","z">>
Uppers == <<"A","B","C","D","E","F","G","H","I","J","K","L","M",
            "N","O","P","Q","R","S","T","U","V","W","X","Y","Z">>

IsLower(c) == \E i \in 1..26 : Lowers[i] = c
IsUpper(c) == \E i \in 1..26 : Uppers[i] = c

\* String.prototype.toUpperCase, one character: a cased letter maps to its
\* capital, U+00DF to "SS", anything else to itself.
UpperOf(c) ==
    IF IsLower(c) THEN <<Uppers[CHOOSE i \in 1..26 : Lowers[i] = c]>>
    ELSE IF c = "sz" THEN <<"S", "S">>
    ELSE <<c>>

\* String.prototype.toLowerCase, one character.
LowerOf(c) ==
    IF IsUpper(c) THEN <<Lowers[CHOOSE i \in 1..26 : Uppers[i] = c]>>
    ELSE <<c>>

RECURSIVE toUpperCase(_)
toUpperCase(s) ==
    IF s = <<>> THEN <<>> ELSE UpperOf(Head(s)) \o toUpperCase(Tail(s))

RECURSIVE toLowerCase(_)
toLowerCase(s) ==
    IF s = <<>> THEN <<>> ELSE LowerOf(Head(s)) \o toLowerCase(Tail(s))

endsWith(s, suffix) ==
    /\ Len(suffix) <= Len(s)
    /\ SubSeq(s, Len(s) - Len(suffix) + 1, Len(s)) = suffix

\* Number.prototype.toFixed(1): the sign, then the magnitude rounded to the
\* nearest tenth, the larger one on a tie.
toFixed1(x) ==
    LET mag == IF x < 0 THEN 0 - x ELSE x
        n == (mag + Tenths(1) \div 2) \div Tenths(1)
    IN  [neg |-> x < 0, whole |-> n \div 10, frac |-> n % 10]

-----------------------------------------------------------------------------
(* part_000: the CII score database and the trust tiers *)

StaticRows ==
    {  <<"M","M",728>>, <<"P","H",382>>, <<"I","D",221>>, <<"T","H",314>>,
       <<"K","H",447>>, <<"L","A",359>>, <<"V","N",286>>, <<"M","Y",193>>,
       <<"S","G",81>>, <<"B","N",120>>, <<"T","L",412>>, <<"B","D",483>>,
       <<"P","K",617>>, <<"A","F",894>>, <<"I","N",291>>, <<"K","P",782>>,
       <<"C","N",243>>, <<"T","W",156>>, <<"Y","E",912>>, <<"S","Y",881>>,
       <<"I","Q",524>>, <<"S","O",836>>, <<"S","S",793>>, <<"S","D",718>>,
       <<"U","S",124>>, <<"J","P",52>>, <<"K","R",118>>, <<"A","U",61>>,
       <<"G","B",87>>, <<"D","E",73>>, <<"F","R",91>>, <<"N","L",58>>,
       <<"C","A",70>>, <<"N","Z",49>> }

\* The table as the module initialiser builds it.
InitialScores ==
    [k \in {<<r[1], r[2]>> : r \in StaticRows} |->
        Tenths((CHOOSE r \in StaticRows : <<r[1], r[2]>> = k)[3])]

\* The tiers with 60.0 itself already CRITICAL.
ciiScoreToTierFrom60(score) ==
    IF score >= 60 * Unit THEN CRITICAL
    ELSE IF score > 34 * Unit THEN ELEVATED
    ELSE STANDARD

ciiScoreToTier(score) ==
    IF score > 60 * Unit THEN CRITICAL
    ELSE IF score > 34 * Unit THEN ELEVATED
    ELSE STANDARD

\* The policy with ELEVATED origins given the STANDARD requirements.
buildTrustPolicyTwoRows(country, ciiScore) ==
    LET tier == ciiScoreToTier(ciiScore)
    IN  IF tier = CRITICAL
        THEN [tier |-> tier, ciiScore |-> ciiScore, country |-> country,
              requireJWS |-> TRUE,
              requireAdminAllowlist |-> TRUE,
              deepInjectionScan |-> TRUE,
              maxRequestsPerHour |-> 10,
              errorCode |-> Some(-32050),
              errorMessage |-> Some([reference |-> "GATRA-POL-CII-CRITICAL",
                                     country |-> country,
                                     cii |-> toFixed1(ciiScore)]),
              auditLevel |-> "forensic"]
        ELSE [tier |-> tier, ciiScore |-> ciiScore, country |-> country,
              requireJWS |-> FALSE,
              requireAdminAllowlist |-> FALSE,
              deepInjectionScan |-> FALSE,
              maxRequestsPerHour |-> 100,
              errorCode |-> Null,
              errorMessage |-> Null,
              auditLevel |-> "standard"]

\* A builder with hidden state: it takes the score on record for the
\* country, when there is one, in place of the score it is given.
buildTrustPolicyStoredScore(country, ciiScore) ==
    LET score == IF country \in DOMAIN COUNTRY_CII_OVERRIDES
                 THEN COUNTRY_CII_OVERRIDES[country] ELSE ciiScore
        tier == ciiScoreToTier(score)
    IN  [tier |-> tier, ciiScore |-> score, country |-> country,
         requireJWS |-> tier # STANDARD,
         requireAdminAllowlist |-> tier = CRITICAL,
         deepInjectionScan |-> tier # STANDARD,
         maxRequestsPerHour |-> IF tier = STANDARD THEN 100
                                ELSE IF tier = ELEVATED THEN 30 ELSE 10,
         errorCode |-> IF tier = CRITICAL THEN Some(-32050) ELSE Null,
         errorMessage |-> IF tier = CRITICAL
                          THEN Some([reference |-> "GATRA-POL-CII-CRITICAL",
                                     country |-> country,
                                     cii |-> toFixed1(score)])
                          ELSE Null,
         auditLevel |-> IF tier = STANDARD THEN "standard"
                        ELSE IF tier = ELEVATED THEN "enhanced" ELSE "forensic"]

buildTrustPolicy(country, ciiScore) ==
    LET tier == ciiScoreToTier(ciiScore)
    IN  CASE tier = STANDARD ->
               [tier |-> tier, ciiScore |-> ciiScore, country |-> country,
                requireJWS |-> FALSE,
                requireAdminAllowlist |-> FALSE,
                deepInjectionScan |-> FALSE,
                maxRequestsPerHour |-> 100,
                errorCode |-> Null,
                errorMessage |-> Null,
                auditLevel |-> "standard"]
          [] tier = ELEVATED ->
               [tier |-> tier, ciiScore |-> ciiScore, country |-> country,
                requireJWS |-> TRUE,
                requireAdminAllowlist |-> FALSE,
                deepInjectionScan |-> TRUE,
                maxRequestsPerHour |-> 30,
                errorCode |-> Null,
                errorMessage |-> Null,
                auditLevel |-> "enhanced"]
          [] tier = CRITICAL ->
               [tier |-> tier, ciiScore |-> ciiScore, country |-> country,
                requireJWS |-> TRUE,
                requireAdminAllowlist |-> TRUE,
                deepInjectionScan |-> TRUE,
                maxRequestsPerHour |-> 10,
                errorCode |-> Some(-32050),
                \* the template's two holes: ${country}, ${ciiScore.toFixed(1)}
                errorMessage |-> Some([reference |-> "GATRA-POL-CII-CRITICAL",
                                       country |-> country,
                                       cii |-> toFixed1(ciiScore)]),
                auditLevel |-> "forensic"]

-----------------------------------------------------------------------------
(* part_000: country resolution *)

\* The ccTLD table in source order: a suffix and the code it maps to.
TLD_TO_COUNTRY ==
    << <<".","m","m","M","M">>, <<".","p","h","P","H">>, <<".","i","d","I","D">>,
       <<".","t","h","T","H">>, <<".","k","h","K","H">>, <<".","l","a","L","A">>,
       <<".","v","n","V","N">>, <<".","m","y","M","Y">>, <<".","s","g","S","G">>,
       <<".","b","n","B","N">>, <<".","t","l","T","L">>, <<".","b","d","B","D">>,
       <<".","p","k","P","K">>, <<".","a","f","A","F">>, <<".","i","n","I","N">>,
       <<".","n","p","N","P">>, <<".","l","k","L","K">>, <<".","k","p","K","P">>,
       <<".","c","n","C","N">>, <<".","t","w","T","W">>, <<".","j","p","J","P">>,
       <<".","k","r","K","R">>, <<".","r","u","R","U">>, <<".","u","a","U","A">>,
       <<".","i","r","I","R">>, <<".","i","q","I","Q">>, <<".","s","y","S","Y">>,
       <<".","y","e","Y","E">>, <<".","s","o","S","O">>, <<".","s","s","S","S">>,
       <<".","s","d","S","D">>, <<".","l","y","L","Y">>, <<".","m","l","M","L">>,
       <<".","c","f","C","F">>, <<".","c","d","C","D">> >>

Tld(e) == SubSeq(e, 1, 3)
TldCode(e) == SubSeq(e, 4, 5)

\* An agent-card URL is NoUrl (absent or empty), InvalidUrl (new URL throws)
\* or a parsed URL, of which only the hostname is read.
NoUrl == [kind |-> "none"]
InvalidUrl == [kind |-> "invalid"]
Url(hostname) == [kind |-> "url", hostname |-> hostname]

\* null (Null) or the code of the first table entry whose suffix ends the
\* lower-cased hostname.
extractTldCountry(url) ==
    IF url.kind # "url" THEN Null
    ELSE LET hostname == toLowerCase(url.hostname)
             hits == {i \in 1..Len(TLD_TO_COUNTRY) :
                         endsWith(hostname, Tld(TLD_TO_COUNTRY[i]))}
         IN  IF hits = {} THEN Null
             ELSE Some(TldCode(TLD_TO_COUNTRY[
                      CHOOSE i \in hits : \A j \in hits : i <= j]))

\* A request's headers: each value a character sequence, <<>> when the
\* header is absent (undefined and '' are both falsy).
NoHeader == <<>>

\* The resolver with the self-reported header consulted before the ccTLD.
resolveAgentCountrySelfFirst(req) ==
    LET vercelCountry == req.vercel
        cfCountry == req.cf
        selfReported == req.self
        tld == IF req.agentCardUrl.kind # "none"
               THEN extractTldCountry(req.agentCardUrl) ELSE Null
    IN  IF vercelCountry # NoHeader /\ Len(vercelCountry) = 2
        THEN [countryCode |-> toUpperCase(vercelCountry), source |-> "vercel-geo"]
        ELSE IF cfCountry # NoHeader /\ Len(cfCountry) = 2 /\ cfCountry # <<"X", "X">>
        THEN [countryCode |-> toUpperCase(cfCountry), source |-> "cf-geo"]
        ELSE IF selfReported # NoHeader /\ Len(selfReported) = 2
        THEN [countryCode |-> toUpperCase(selfReported), source |-> "self-reported"]
        ELSE IF tld # Null
        THEN [countryCode |-> tld[1], source |-> "tld"]
        ELSE [countryCode |-> <<"X", "X">>, source |-> "unknown"]

resolveAgentCountry(req) ==
    LET vercelCountry == req.vercel
        cfCountry == req.cf
        selfReported == req.self
        tld == IF req.agentCardUrl.kind # "none"
               THEN extractTldCountry(req.agentCardUrl) ELSE Null
    IN  IF vercelCountry # NoHeader /\ Len(vercelCountry) = 2
        THEN [countryCode |-> toUpperCase(vercelCountry), source |-> "vercel-geo"]
        ELSE IF cfCountry # NoHeader /\ Len(cfCountry) = 2 /\ cfCountry # <<"X", "X">>
        THEN [countryCode |-> toUpperCase(cfCountry), source |-> "cf-geo"]
        ELSE IF tld # Null
        THEN [countryCode |-> tld[1], source |-> "tld"]
        ELSE IF selfReported # NoHeader /\ Len(selfReported) = 2
        THEN [countryCode |-> toUpperCase(selfReported), source |-> "self-reported"]
        ELSE [countryCode |-> <<"X", "X">>, source |-> "unknown"]

-----------------------------------------------------------------------------
(* part_000: score lookup, policy evaluation, runtime updates *)

\* The lookup with the key taken as written.
getCiiScoreInAsWritten(t, countryCode) ==
    IF countryCode \in DOMAIN t THEN t[countryCode] ELSE 0

\* COUNTRY_CII_OVERRIDES[countryCode.toUpperCase()] ?? 0.0 on table `t`.
getCiiScoreIn(t, countryCode) ==
    LET key == toUpperCase(countryCode)
    IN  IF key \in DOMAIN t THEN t[key] ELSE 0

getCiiScore(countryCode) == getCiiScoreIn(COUNTRY_CII_OVERRIDES, countryCode)

\* The evaluation with no "*" wildcard in the allowlist.
evaluateCiiTrustPolicyNoWildcard(req, allowlist, agentId) ==
    LET res == resolveAgentCountry(req)
        ciiScore == getCiiScore(res.countryCode)
        policy == buildTrustPolicy(res.countryCode, ciiScore)
        isInAllowlist == agentId \in allowlist
        allowed == ~(policy.tier = CRITICAL /\ ~isInAllowlist)
    IN  [allowed |-> allowed,
         policy |-> policy,
         countryCode |-> res.countryCode,
         countrySource |-> res.source,
         isInAllowlist |-> isInAllowlist,
         enforcedAt |-> now]

evaluateCiiTrustPolicy(req, allowlist, agentId) ==
    LET res == resolveAgentCountry(req)
        ciiScore == getCiiScore(res.countryCode)
        policy == buildTrustPolicy(res.countryCode, ciiScore)
        isInAllowlist == agentId \in allowlist \/ "*" \in allowlist
        allowed == ~(policy.tier = CRITICAL /\ ~isInAllowlist)
    IN  [allowed |-> allowed,
         policy |-> policy,
         countryCode |-> res.countryCode,
         countrySource |-> res.source,
         isInAllowlist |-> isInAllowlist,
         enforcedAt |-> now]

\* The table after an update stored under the code as it is written.
updatedScoresAsWritten(t, countryCode, score) ==
    [k \in DOMAIN t \cup {countryCode} |->
        IF k = countryCode THEN score ELSE t[k]]

\* The table after COUNTRY_CII_OVERRIDES[countryCode.toUpperCase()] = score.
updatedScores(t, countryCode, score) ==
    LET key == toUpperCase(countryCode)
    IN  [k \in DOMAIN t \cup {key} |-> IF k = key THEN score ELSE t[k]]

\* Rate limits with a burst for ELEVATED above the one for STANDARD.
getTierRateLimitsWideElevatedBurst(tier) ==
    CASE tier = CRITICAL -> [maxPerMinute |-> 1, maxBurst |-> 2]
      [] tier = ELEVATED -> [maxPerMinute |-> 3, maxBurst |-> 12]
      [] OTHER -> [maxPerMinute |-> 60, maxBurst |-> 10]

getTierRateLimits(tier) ==
    CASE tier = CRITICAL -> [maxPerMinute |-> 1, maxBurst |-> 2]
      [] tier = ELEVATED -> [maxPerMinute |-> 3, maxBurst |-> 5]
      [] OTHER -> [maxPerMinute |-> 60, maxBurst |-> 10]

-----------------------------------------------------------------------------
(* part_001: the A2A JSON-RPC handler.                                     *)
(*                                                                         *)
(* A JSON field that may be missing is Null or Some(value).  A message     *)
(* text is the sequence of its words; the words come from a vocabulary on  *)
(* which each routing pattern's answer is known.  A task id is a string.   *)

ERR_PARSE == -32700
ERR_INVALID_REQ == -32600
ERR_METHOD_NOT_FOUND == -32601
ERR_INVALID_PARAMS == -32602
ERR_INTERNAL == -32603
ERR_TASK_NOT_FOUND == -32001
ERR_TASK_NOT_CANCELABLE == -32002
ERR_UNSUPPORTED_OP == -32004

\* tasks.size > 50
TaskCapacity == 50

SKILL_MAP ==
    [x \in {"anomaly-detection", "triage-analysis", "containment-response",
            "continuous-learning", "reporting-visualization", "ioc-lookup"} |->
        CASE x = "anomaly-detection" -> <<"A", "D", "A">>
          [] x = "triage-analysis" -> <<"T", "A", "A">>
          [] x = "containment-response" -> <<"C", "R", "A">>
          [] x = "continuous-learning" -> <<"C", "L", "A">>
          [] x = "reporting-visualization" -> <<"R", "V", "A">>
          [] x = "ioc-lookup" -> <<"I", "O", "C">>]

\* SKILL_MAP is an object literal: SKILL_MAP[k] is also truthy for the
\* properties it inherits from Object.prototype, whose values have no agentId.
InheritedKeys ==
    {"constructor", "toString", "valueOf", "hasOwnProperty", "isPrototypeOf",
     "propertyIsEnumerable", "toLocaleString", "__proto__"}

\* The patterns of routeToAgent on the vocabulary: a word set per
\* alternative that matches inside one word, and incident.*analy, which
\* matches across words.
Ipv4Words == {"10.0.0.1"}
HexWords == {"d41d8cd98f00b204e9800998ecf8427e"}
IocWords == {"malware"}
TriageWords == {"ALERT"}
ContainWords == {"block"}
ReportWords == {"report"}
LearnWords == {"learn"}

HasWord(text, words) == \E i \in 1..Len(text) : text[i] \in words

IocPattern(text) ==
    HasWord(text, Ipv4Words) \/ HasWord(text, HexWords) \/ HasWord(text, IocWords)

TriagePattern(text) ==
    \/ HasWord(text, TriageWords)
    \/ \E i, j \in 1..Len(text) :
           i < j /\ text[i] = "incident" /\ text[j] = "analysis"

\* The skill id routeToAgent returns; the agent is SkillAgent of it.
routeToAgent(text, metadata) ==
    IF /\ metadata # Null
       /\ metadata[1].skillId # Null
       /\ metadata[1].skillId[1] \in DOMAIN SKILL_MAP \cup InheritedKeys
    THEN metadata[1].skillId[1]
    ELSE IF IocPattern(text) THEN "ioc-lookup"
    ELSE IF TriagePattern(text) THEN "triage-analysis"
    ELSE IF HasWord(text, ContainWords) THEN "containment-response"
    ELSE IF HasWord(text, ReportWords) THEN "reporting-visualization"
    ELSE IF HasWord(text, LearnWords) THEN "continuous-learning"
    ELSE "anomaly-detection"

\* agent.agentId of the routed skill: undefined (Null) for an inherited key.
SkillAgent(skillId) ==
    IF skillId \in DOMAIN SKILL_MAP THEN Some(SKILL_MAP[skillId]) ELSE Null

\* uid() draws a random v4 UUID.  The n-th one drawn for a task id is
\* uid(n), distinct from every other; the ones drawn for context, message
\* and artifact ids are never compared or looked up and are all FreshId.
uid(n) == "uid-" \o ToString(n)
FreshId == "uid"

jsonRpcSuccess(id, result) ==
    [http |-> 200, kind |-> "result", id |-> id, result |-> result]

jsonRpcError(id, code) ==
    [http |-> 200, kind |-> "error", id |-> id, code |-> code]

\* A rejected promise: the handler returns no JSON-RPC body.
Unhandled == [http |-> 500, kind |-> "unhandled"]

\* The task Map, an insertion-ordered sequence of tasks with distinct ids.
HasTask(ts, id) == \E i \in 1..Len(ts) : ts[i].id = id
TaskIndex(ts, id) == CHOOSE i \in 1..Len(ts) : ts[i].id = id
MapGet(ts, id) == ts[TaskIndex(ts, id)]

\* A store whose set() moves a known key to the end (delete, then set).
MapSetMoveToEnd(ts, task) ==
    Append(SelectSeq(ts, LAMBDA t : t.id # task.id), task)

\* Map.prototype.set: a known key keeps its place, a new one goes last.
MapSet(ts, task) ==
    IF HasTask(ts, task.id)
    THEN [ts EXCEPT ![TaskIndex(ts, task.id)] = task]
    ELSE Append(ts, task)

\* A store that never evicts.
PruneNever(ts) == ts

\* Prune old tasks: drop tasks.keys().next().value when over capacity.
Prune(ts) == IF Len(ts) > TaskCapacity THEN Tail(ts) ELSE ts

\* The words of the parts that pass the filter, joined and trimmed.
RECURSIVE JoinText(_)
JoinText(parts) ==
    IF parts = <<>> THEN <<>>
    ELSE LET p == Head(parts)
             keep == p.kind = Some("text") \/ p.text # Null
         IN  (IF keep /\ p.text # Null THEN p.text[1] ELSE <<>>)
                 \o JoinText(Tail(parts))

\* generateAgentResponse: the agent's header, the time and the query.
generateAgentResponse(agentId, userText, skillId) ==
    [agent |-> agentId, at |-> now, query |-> userText]

\* What a handler call leaves behind: the answer, the task table, the uid
\* counter.
Outcome(resp, ts, n) == [response |-> resp, tasks |-> ts, uidCount |-> n]

handleMessageSend(id, params) ==
    IF params = Null \/ params[1].message = Null
    THEN Outcome(jsonRpcError(id, ERR_INVALID_PARAMS), tasks, uidCount)
    ELSE
    LET message == params[1].message[1]
        configuration == params[1].configuration
    IN
    IF message.parts = Null \/ ~message.parts[1].isArray
           \/ Len(message.parts[1].items) = 0
    THEN Outcome(jsonRpcError(id, ERR_INVALID_PARAMS), tasks, uidCount)
    ELSE IF message.role # Null /\ message.role # Some("user")
    THEN Outcome(jsonRpcError(id, ERR_INVALID_PARAMS), tasks, uidCount)
    ELSE
    LET parts == message.parts[1].items
    IN
    \* p.kind of a null or non-object element throws
    IF \E i \in 1..Len(parts) : parts[i] = Null
    THEN Outcome(Unhandled, tasks, uidCount)
    ELSE
    LET userText == JoinText([i \in 1..Len(parts) |-> parts[i][1]])
    IN
    IF userText = <<>>
    THEN Outcome(jsonRpcError(id, ERR_INVALID_PARAMS), tasks, uidCount)
    ELSE
    LET skillId == routeToAgent(userText, params[1].metadata)
        agentId == SkillAgent(skillId)
        contextId == IF message.contextId = Null THEN FreshId
                     ELSE message.contextId[1]
        n == IF message.taskId = Null THEN uidCount + 1 ELSE uidCount
        taskId == IF message.taskId = Null THEN uid(n) ELSE message.taskId[1]
        responseText == generateAgentResponse(agentId, userText, skillId)
    IN
    \* agent.agentId.toLowerCase() of an undefined agentId throws, after the
    \* task id was drawn
    IF agentId = Null
    THEN Outcome(Unhandled, tasks, n)
    ELSE
    LET withHistory == /\ configuration # Null
                       /\ configuration[1].historyLength # Null
                       /\ configuration[1].historyLength[1] > 0
        task ==
            [id |-> taskId,
             contextId |-> contextId,
             kind |-> "task",
             status |-> [state |-> "completed",
                         timestamp |-> now,
                         message |-> [messageId |-> FreshId, role |-> "agent",
                                      text |-> responseText]],
             artifacts |-> << [artifactId |-> FreshId,
                               name |-> toLowerCase(agentId[1])
                                            \o <<"-", "analysis">>,
                               text |-> responseText] >>,
             history |-> IF withHistory
                         THEN Some(<< [messageId |->
                                          IF message.messageId = Null
                                          THEN FreshId ELSE message.messageId[1],
                                       role |-> "user", parts |-> parts],
                                      [messageId |-> FreshId, role |-> "agent",
                                       text |-> responseText] >>)
                         ELSE Null,
             metadata |-> [gatraAgent |-> agentId[1], gatraSkill |-> skillId,
                           processedAt |-> now]]
        stored == Prune(MapSet(tasks, task))
    IN  Outcome(jsonRpcSuccess(id, task), stored, n)

\* tasks/get answering with the oldest stored task, whatever id is asked.
handleTasksGetOldest(id, params) ==
    IF params = Null \/ params[1].id = Null
    THEN Outcome(jsonRpcError(id, ERR_INVALID_PARAMS), tasks, uidCount)
    ELSE IF ~HasTask(tasks, params[1].id[1])
    THEN Outcome(jsonRpcError(id, ERR_TASK_NOT_FOUND), tasks, uidCount)
    ELSE LET task == tasks[1]
             result == IF params[1].historyLength = Some(0)
                       THEN [task EXCEPT !.history = Null] ELSE task
         IN  Outcome(jsonRpcSuccess(id, result), tasks, uidCount)

\* tasks/get trimming the history of the stored task itself.
handleTasksGetTrimStored(id, params) ==
    IF params = Null \/ params[1].id = Null
    THEN Outcome(jsonRpcError(id, ERR_INVALID_PARAMS), tasks, uidCount)
    ELSE IF ~HasTask(tasks, params[1].id[1])
    THEN Outcome(jsonRpcError(id, ERR_TASK_NOT_FOUND), tasks, uidCount)
    ELSE LET i == TaskIndex(tasks, params[1].id[1])
             task == tasks[i]
             result == IF params[1].historyLength = Some(0)
                       THEN [task EXCEPT !.history = Null] ELSE task
         IN  Outcome(jsonRpcSuccess(id, result),
                     [tasks EXCEPT ![i] = result], uidCount)

handleTasksGet(id, params) ==
    IF params = Null \/ params[1].id = Null
    THEN Outcome(jsonRpcError(id, ERR_INVALID_PARAMS), tasks, uidCount)
    ELSE IF ~HasTask(tasks, params[1].id[1])
    THEN Outcome(jsonRpcError(id, ERR_TASK_NOT_FOUND), tasks, uidCount)
    ELSE LET task == MapGet(tasks, params[1].id[1])
             result == IF params[1].historyLength = Some(0)
                       THEN [task EXCEPT !.history = Null] ELSE task
         IN  Outcome(jsonRpcSuccess(id, result), tasks, uidCount)

\* A cancel that takes a completed task for one still in progress.
terminalStatesButCompleted == {"failed", "canceled", "rejected"}

terminalStates == {"completed", "failed", "canceled", "rejected"}

\* tasks/cancel without the terminal-state check.
handleTasksCancelAnyState(id, params) ==
    IF params = Null \/ params[1].id = Null
    THEN Outcome(jsonRpcError(id, ERR_INVALID_PARAMS), tasks, uidCount)
    ELSE IF ~HasTask(tasks, params[1].id[1])
    THEN Outcome(jsonRpcError(id, ERR_TASK_NOT_FOUND), tasks, uidCount)
    ELSE LET i == TaskIndex(tasks, params[1].id[1])
             canceled == [tasks[i] EXCEPT !.status.state = "canceled",
                                          !.status.timestamp = now]
         IN  Outcome(jsonRpcSuccess(id, canceled),
                     [tasks EXCEPT ![i] = canceled], uidCount)

handleTasksCancel(id, params) ==
    IF params = Null \/ params[1].id = Null
    THEN Outcome(jsonRpcError(id, ERR_INVALID_PARAMS), tasks, uidCount)
    ELSE IF ~HasTask(tasks, params[1].id[1])
    THEN Outcome(jsonRpcError(id, ERR_TASK_NOT_FOUND), tasks, uidCount)
    ELSE LET i == TaskIndex(tasks, params[1].id[1])
             task == tasks[i]
         IN  IF task.status.state \in terminalStates
             THEN Outcome(jsonRpcError(id, ERR_TASK_NOT_CANCELABLE), tasks, uidCount)
             ELSE LET canceled == [task EXCEPT !.status.state = "canceled",
                                               !.status.timestamp = now]
                  IN  Outcome(jsonRpcSuccess(id, canceled),
                              [tasks EXCEPT ![i] = canceled], uidCount)

UnsupportedMethods ==
    {"message/stream", "tasks/resubscribe",
     "tasks/pushNotificationConfig/set", "tasks/pushNotificationConfig/get",
     "tasks/pushNotificationConfig/list", "tasks/pushNotificationConfig/delete"}

\* A handler that looks the method up before it validates the envelope.
handlerMethodFirst(req) ==
    IF req.httpMethod = "OPTIONS"
    THEN Outcome([http |-> 204, kind |-> "http"], tasks, uidCount)
    ELSE IF req.httpMethod # "POST"
    THEN Outcome([http |-> 405, kind |-> "http"], tasks, uidCount)
    ELSE
    LET body == req.body
    IN
    IF body.kind = "unparsable"
    THEN Outcome(jsonRpcError(Null, ERR_PARSE), tasks, uidCount)
    ELSE IF body.kind = "null"
    THEN Outcome(jsonRpcError(Null, ERR_INVALID_REQ), tasks, uidCount)
    ELSE IF /\ body.method # Null
            /\ body.method[1] \notin UnsupportedMethods
                   \cup {"message/send", "tasks/get", "tasks/cancel"}
    THEN Outcome(jsonRpcError(body.id, ERR_METHOD_NOT_FOUND), tasks, uidCount)
    ELSE IF body.jsonrpc # Some("2.0") \/ body.method = Null \/ body.id = Null
    THEN Outcome(jsonRpcError(body.id, ERR_INVALID_REQ), tasks, uidCount)
    ELSE
    LET method == body.method[1]
        params == body.params
        id == body.id
    IN  CASE method = "message/send" -> handleMessageSend(id, params)
          [] method = "tasks/get" -> handleTasksGet(id, params)
          [] method = "tasks/cancel" -> handleTasksCancel(id, params)
          [] OTHER ->
                 Outcome(jsonRpcError(id, ERR_UNSUPPORTED_OP), tasks, uidCount)

\* A handler whose switch has no case for the push-notification methods.
handlerNoPushCases(req) ==
    IF req.httpMethod = "OPTIONS"
    THEN Outcome([http |-> 204, kind |-> "http"], tasks, uidCount)
    ELSE IF req.httpMethod # "POST"
    THEN Outcome([http |-> 405, kind |-> "http"], tasks, uidCount)
    ELSE
    LET body == req.body
    IN
    IF body.kind = "unparsable"
    THEN Outcome(jsonRpcError(Null, ERR_PARSE), tasks, uidCount)
    ELSE IF body.kind = "null"
    THEN Outcome(jsonRpcError(Null, ERR_INVALID_REQ), tasks, uidCount)
    ELSE IF body.jsonrpc # Some("2.0") \/ body.method = Null \/ body.id = Null
    THEN Outcome(jsonRpcError(body.id, ERR_INVALID_REQ), tasks, uidCount)
    ELSE
    LET method == body.method[1]
        params == body.params
        id == body.id
    IN  CASE method = "message/send" -> handleMessageSend(id, params)
          [] method = "tasks/get" -> handleTasksGet(id, params)
          [] method = "tasks/cancel" -> handleTasksCancel(id, params)
          [] method \in {"message/stream", "tasks/resubscribe"} ->
                 Outcome(jsonRpcError(id, ERR_UNSUPPORTED_OP), tasks, uidCount)
          [] OTHER ->
                 Outcome(jsonRpcError(id, ERR_METHOD_NOT_FOUND), tasks, uidCount)

\* The default export: what one HTTP request leaves behind.
handler(req) ==
    IF req.httpMethod = "OPTIONS"
    THEN Outcome([http |-> 204, kind |-> "http"], tasks, uidCount)
    ELSE IF req.httpMethod # "POST"
    THEN Outcome([http |-> 405, kind |-> "http"], tasks, uidCount)
    ELSE
    LET body == req.body
    IN
    IF body.kind = "unparsable"
    THEN Outcome(jsonRpcError(Null, ERR_PARSE), tasks, uidCount)
    ELSE IF body.kind = "null"
    THEN Outcome(jsonRpcError(Null, ERR_INVALID_REQ), tasks, uidCount)
    ELSE IF body.jsonrpc # Some("2.0") \/ body.method = Null \/ body.id = Null
    THEN Outcome(jsonRpcError(body.id, ERR_INVALID_REQ), tasks, uidCount)
    ELSE
    LET method == body.method[1]
        params == body.params
        id == body.id
    IN  CASE method = "message/send" -> handleMessageSend(id, params)
          [] method = "tasks/get" -> handleTasksGet(id, params)
          [] method = "tasks/cancel" -> handleTasksCancel(id, params)
          [] method \in UnsupportedMethods ->
                 Outcome(jsonRpcError(id, ERR_UNSUPPORTED_OP), tasks, uidCount)
          [] OTHER ->
                 Outcome(jsonRpcError(id, ERR_METHOD_NOT_FOUND), tasks, uidCount)

-----------------------------------------------------------------------------
(* part_001: requests in flight.  handler is an async function whose only  *)
(* suspension point is `await req.text()`; what follows it, the method     *)
(* handler included, runs to completion on the instance's one thread.      *)

Slots == 1..2

NoRequest == [httpMethod |-> "NONE", body |-> [kind |-> "none"]]
NoAnswer == [http |-> 0, kind |-> "none"]
Idle == [pc |-> "idle", req |-> NoRequest, answer |-> NoAnswer]

\* A handleMessageSend that awaits between tasks.set and the pruning.
SuspendsAfterSetSomewhere == TRUE

\* Whether handleMessageSend suspends between tasks.set and the pruning:
\* it holds no await.
SuspendsAfterSet == FALSE

-----------------------------------------------------------------------------
(* Inputs of the policy engine *)

MM == <<"M", "M">>
SG == <<"S", "G">>
PH == <<"P", "H">>
XX == <<"X", "X">>
ZZ == <<"Z", "Z">>

\* Scores handed to ciiScoreToTier and buildTrustPolicy: the two thresholds,
\* their successors, and values inside each tier.
ScoreSet ==
    { Tenths(-10), 0, Tenths(81), 34 * Unit, 34 * Unit + 1, Tenths(349),
      60 * Unit, 60 * Unit + 1, Tenths(728), Tenths(912) }

\* Codes handed to getCiiScore and buildTrustPolicy, in several letter cases.
CodeSet ==
    { MM, <<"m", "m">>, <<"M", "m">>, SG, <<"s", "g">>, PH, XX, ZZ }

\* Arguments of updateCiiScore.
UpdateCodes == { <<"m", "m">>, <<"P", "h">>, XX }
UpdateScores == { Tenths(-50), 34 * Unit + 1, Tenths(912) }

\* Requests handed to evaluateCiiTrustPolicy.
EvalRequests ==
    [vercel : {NoHeader, MM, <<"s", "g">>, XX},
     cf : {NoHeader},
     agentCardUrl : {NoUrl, Url(<<"a", ".", "k", "p">>)},
     self : {NoHeader, PH}]

AgentIds == {"agent:a"}
Allowlists == { {}, {"agent:a"}, {"agent:b"}, {"*"} }

-----------------------------------------------------------------------------
(* The policy engine's exported functions, one action per call *)

CallCiiScoreToTier(score) ==
    /\ call' = [op |-> "ciiScoreToTier", score |-> score,
                result |-> ciiScoreToTier(score)]
    /\ UNCHANGED <<COUNTRY_CII_OVERRIDES, taskVars, gateVars, flightVars>>

CallBuildTrustPolicy(country, score) ==
    /\ call' = [op |-> "buildTrustPolicy", country |-> country, score |-> score,
                result |-> buildTrustPolicy(country, score)]
    /\ UNCHANGED <<COUNTRY_CII_OVERRIDES, taskVars, gateVars, flightVars>>

CallGetCiiScore(countryCode) ==
    /\ call' = [op |-> "getCiiScore", countryCode |-> countryCode,
                result |-> getCiiScore(countryCode)]
    /\ UNCHANGED <<COUNTRY_CII_OVERRIDES, taskVars, gateVars, flightVars>>

CallResolveAgentCountry(req) ==
    /\ call' = [op |-> "resolveAgentCountry", req |-> req,
                result |-> resolveAgentCountry(req)]
    /\ UNCHANGED <<COUNTRY_CII_OVERRIDES, taskVars, gateVars, flightVars>>

CallEvaluateCiiTrustPolicy(req, allowlist, agentId) ==
    /\ call' = [op |-> "evaluateCiiTrustPolicy", req |-> req,
                allowlist |-> allowlist, agentId |-> agentId,
                result |-> evaluateCiiTrustPolicy(req, allowlist, agentId)]
    /\ UNCHANGED <<COUNTRY_CII_OVERRIDES, taskVars, gateVars, flightVars>>

updateCiiScore(countryCode, score) ==
    /\ COUNTRY_CII_OVERRIDES' =
           updatedScores(COUNTRY_CII_OVERRIDES, countryCode, score)
    /\ call' = [op |-> "updateCiiScore", countryCode |-> countryCode,
                score |-> score]
    /\ UNCHANGED <<taskVars, gateVars, flightVars>>

Init ==
    /\ COUNTRY_CII_OVERRIDES = InitialScores
    /\ call = [op |-> "none"]
    /\ tasks = <<>>
    /\ uidCount = 0
    /\ now = 0
    /\ response = [req |-> [httpMethod |-> "NONE", body |-> [kind |-> "none"]],
                   answer |-> [http |-> 0, kind |-> "none"]]
    /\ authMode = "optional"
    /\ rateWindows = <<>>
    /\ nonces = <<>>
    /\ inflight = [s \in Slots |-> Idle]

\* The policy engine: any exported function, in any order.
Next ==
    \/ \E s \in ScoreSet : CallCiiScoreToTier(s)
    \/ \E c \in {MM, <<"s", "g">>}, s \in ScoreSet : CallBuildTrustPolicy(c, s)
    \/ \E c \in CodeSet : CallGetCiiScore(c)
    \/ \E r \in EvalRequests, al \in Allowlists, a \in AgentIds :
           CallEvaluateCiiTrustPolicy(r, al, a)
    \/ \E c \in UpdateCodes, s \in UpdateScores : updateCiiScore(c, s)

Spec == Init /\ [][Next]_vars

-----------------------------------------------------------------------------
(* The task engine: one action per HTTP request, and the clock *)

Request(req, maxUid) ==
    LET o == handler(req)
    IN  /\ o.uidCount <= maxUid
        /\ tasks' = o.tasks
        /\ uidCount' = o.uidCount
        /\ response' = [req |-> req, answer |-> o.response]
        /\ UNCHANGED <<now, policyVars, gateVars, flightVars>>

Tick(maxTime) ==
    /\ now < maxTime
    /\ now' = now + 1
    /\ UNCHANGED <<tasks, uidCount, response, policyVars, gateVars, flightVars>>

\* Request builders.
Post(method, id, params) ==
    [httpMethod |-> "POST",
     body |-> [kind |-> "json", jsonrpc |-> Some("2.0"), method |-> method,
               id |-> id, params |-> params]]

TextPart(words) == Some([kind |-> Some("text"), text |-> Some(words)])
DataPart == Some([kind |-> Some("data"), text |-> Null])

Message(items, role, taskId) ==
    [parts |-> Some([isArray |-> TRUE, items |-> items]), role |-> role,
     taskId |-> taskId, contextId |-> Null, messageId |-> Null]

SendParams(message, historyLength, skillId) ==
    Some([message |-> Some(message),
          configuration |-> IF historyLength = Null THEN Null
                            ELSE Some([historyLength |-> historyLength]),
          metadata |-> IF skillId = Null THEN Null
                       ELSE Some([skillId |-> skillId])])

Send(params) == Post(Some("message/send"), Some("r1"), params)
Get(taskId, historyLength) ==
    Post(Some("tasks/get"), Some("r2"),
         Some([id |-> taskId, historyLength |-> historyLength]))
Cancel(taskId) == Post(Some("tasks/cancel"), Some("r3"), Some([id |-> taskId]))

StoredIds == {tasks[i].id : i \in 1..Len(tasks)}

\* Requests that never reach a method handler, or reach one without params.
EnvelopeRequests ==
    { [httpMethod |-> "OPTIONS", body |-> [kind |-> "unparsable"]],
      [httpMethod |-> "GET", body |-> [kind |-> "unparsable"]],
      [httpMethod |-> "POST", body |-> [kind |-> "unparsable"]],
      [httpMethod |-> "POST", body |-> [kind |-> "null"]],
      [httpMethod |-> "POST",
       body |-> [kind |-> "json", jsonrpc |-> Some("1.0"),
                 method |-> Some("tasks/get"), id |-> Some("r0"), params |-> Null]],
      Post(Null, Some("r0"), Null),
      Post(Some("message/send"), Null, Null),
      Post(Some("agent/getCard"), Some("r0"), Null),
      Post(Some("message/send"), Some("r0"), Null),
      Post(Some("tasks/get"), Some("r0"), Null),
      Post(Some("tasks/cancel"), Some("r0"), Null),
      [Post(Some("agent/getCard"), Some("r0"), Null) EXCEPT !.body.jsonrpc = Some("1.0")],
      [Post(Some("message/stream"), Some("r0"), Null) EXCEPT !.body.jsonrpc = Null],
      Post(Some("agent/getCard"), Null, Null),
      Post(Some("tasks/pushNotificationConfig/set"), Some("r0"),
           Some([id |-> Some("t1")])) }
    \cup {Post(Some(m), Some("r0"), Null) : m \in UnsupportedMethods}

\* message/send requests the validation refuses, or that throw.
RefusedSends ==
    { Send(Some([message |-> Null, configuration |-> Null, metadata |-> Null])),
      Send(SendParams([Message(<<>>, Null, Null) EXCEPT !.parts = Null], Null, Null)),
      Send(SendParams([Message(<<>>, Null, Null) EXCEPT
                          !.parts = Some([isArray |-> FALSE, items |-> <<>>])],
                      Null, Null)),
      Send(SendParams(Message(<<>>, Null, Null), Null, Null)),
      Send(SendParams(Message(<<TextPart(<<"hello">>)>>, Some("agent"), Null),
                      Null, Null)),
      Send(SendParams(Message(<<TextPart(<<>>)>>, Null, Null), Null, Null)),
      Send(SendParams(Message(<<DataPart>>, Null, Null), Null, Null)),
      Send(SendParams(Message(<<TextPart(<<"hello">>), Null>>, Null, Null),
                      Null, Null)),
      Send(SendParams(Message(<<TextPart(<<"hello">>)>>, Null, Null), Null,
                      Some("constructor"))) }

\* message/send requests that pass validation, for a task id (or Null).
AcceptedSends(taskId) ==
    { Send(SendParams(Message(<<TextPart(<<"hello">>)>>, Null, taskId),
                      Null, Null)),
      Send(SendParams(Message(<<DataPart, TextPart(<<"block">>),
                                TextPart(<<"10.0.0.1">>)>>, Some("user"), taskId),
                      Some(1), Null)),
      Send(SendParams(Message(<<TextPart(<<"report">>)>>, Null, taskId),
                      Some(0), Some("triage-analysis"))),
      Send(SendParams(Message(<<TextPart(<<"learn">>)>>, Null, taskId),
                      Null, Some("bogus"))) }

\* The same for a task the endpoint names.
FreshSends == AcceptedSends(Null)

\* A message/send that names the task it is for.
CallerSend(taskId) ==
    Send(SendParams(Message(<<TextPart(<<"hello">>)>>, Null, taskId), Null, Null))

\* Task ids a caller names: those stored, one of the caller's own, one unknown.
NamedIds == StoredIds \cup {"t1", "missing"}

MaxUid == 1
MaxTime == 1

TaskNext ==
    \/ \E r \in EnvelopeRequests \cup RefusedSends : Request(r, MaxUid)
    \/ \E r \in FreshSends : Request(r, MaxUid)
    \/ \E t \in StoredIds \cup {"t1"} : Request(CallerSend(Some(t)), MaxUid)
    \/ \E id \in {Null} \cup {Some(t) : t \in NamedIds}, h \in {Null, Some(0)} :
           Request(Get(id, h), MaxUid)
    \/ \E id \in {Null} \cup {Some(t) : t \in NamedIds} :
           Request(Cancel(id), MaxUid)
    \/ Tick(MaxTime)

TaskSpec == Init /\ [][TaskNext]_vars

-----------------------------------------------------------------------------
(* The task engine filled to capacity: one kind of message, no clock tick,
   and callers that name the oldest stored task, the newest, their own id
   or an unknown one. *)

MaxUidCap == 52

EdgeIds ==
    (IF tasks = <<>> THEN {} ELSE {tasks[1].id, tasks[Len(tasks)].id})
        \cup {"t1", "missing"}

CapNext ==
    \/ \E id \in {Null} \cup {Some(t) : t \in EdgeIds \ {"missing"}} :
           Request(CallerSend(id), MaxUidCap)
    \/ \E t \in EdgeIds : Request(Get(Some(t), Null), MaxUidCap)
    \/ \E t \in EdgeIds : Request(Cancel(Some(t)), MaxUidCap)

CapSpec == Init /\ [][CapNext]_vars

-----------------------------------------------------------------------------
(* Several requests in flight on one instance.  A request arrives and is   *)
(* suspended at `await req.text()`; when it resumes, the rest of handler   *)
(* runs up to the next suspension point.                                   *)

MaxUidConc == 52

\* Requests a caller may have in flight.
FlightRequests ==
    { CallerSend(Null), CallerSend(Some("uid-2")),
      Get(Some("uid-1"), Null), Get(Some("uid-2"), Some(0)),
      Cancel(Some("uid-1")) }

\* handler up to `await req.text()`.
Arrive(slot, req) ==
    /\ inflight[slot].pc = "idle"
    /\ inflight' = [inflight EXCEPT ![slot] =
                        [pc |-> "reading", req |-> req, answer |-> NoAnswer]]
    /\ UNCHANGED <<taskVars, policyVars, gateVars>>

\* handler from the point where it was suspended.
Resume(slot) ==
    LET f == inflight[slot]
    IN  /\ f.pc # "idle"
        /\ IF f.pc = "stored"
           THEN /\ tasks' = Prune(tasks)
                /\ response' = [req |-> f.req, answer |-> f.answer]
                /\ inflight' = [inflight EXCEPT ![slot] = Idle]
                /\ UNCHANGED uidCount
           ELSE \E o \in {handler(f.req)} :
                   /\ o.uidCount <= MaxUidConc
                   /\ uidCount' = o.uidCount
                   /\ IF /\ SuspendsAfterSet
                         /\ f.req.body.method = Some("message/send")
                         /\ o.response.kind = "result"
                      THEN /\ tasks' = MapSet(tasks, o.response.result)
                           /\ inflight' = [inflight EXCEPT ![slot] =
                                  [pc |-> "stored", req |-> f.req,
                                   answer |-> o.response]]
                           /\ UNCHANGED response
                      ELSE /\ tasks' = o.tasks
                           /\ response' = [req |-> f.req, answer |-> o.response]
                           /\ inflight' = [inflight EXCEPT ![slot] = Idle]
        /\ UNCHANGED <<now, policyVars, gateVars>>

ConcNext ==
    \/ \E slot \in Slots, r \in FlightRequests : Arrive(slot, r)
    \/ \E slot \in Slots : Resume(slot)

ConcSpec == Init /\ [][ConcNext]_vars

-----------------------------------------------------------------------------
(* Routing alone: message/send with every short text over the vocabulary   *)
(* and every kind of skill id, always for the same task                    *)

RouteWords ==
    {"10.0.0.1", "d41d8cd98f00b204e9800998ecf8427e", "malware", "ALERT",
     "incident", "analysis", "block", "report", "learn", "hello"}
RouteSkillIds ==
    {Null, Some("triage-analysis"), Some("anomaly-detection"), Some("bogus"),
     Some("constructor")}

RouteSend(text, skillId) ==
    Send(SendParams(Message(<<TextPart(text)>>, Null, Some("t1")), Null, skillId))

\* One-word texts with every skill id, two-word texts with none and with
\* a catalogued one.
RouteRequests ==
    {RouteSend(<<w>>, skillId) : w \in RouteWords, skillId \in RouteSkillIds}
        \cup {RouteSend(<<v, w>>, skillId) :
                  v \in RouteWords, w \in RouteWords,
                  skillId \in {Null, Some("triage-analysis")}}

RouteNext == \E r \in RouteRequests : Request(r, 0)

RouteSpec == Init /\ [][RouteNext]_vars

-----------------------------------------------------------------------------
(* The country resolver alone, over a wider set of requests *)

ResolverRequests ==
    [vercel : {NoHeader, MM, <<"s", "g">>, XX, <<"1", "2">>, <<"U", "S", "A">>},
     cf : {NoHeader, <<"p", "h">>, XX, <<"x", "x">>, <<"1", "2">>, <<"sz", "a">>},
     agentCardUrl : {NoUrl, InvalidUrl,
                     Url(<<"a", ".", "c", "o", "m", ".", "m", "m">>),
                     Url(<<"A", ".", "K", "P">>),
                     Url(<<"a", ".", "c", "o", "m">>),
                     Url(<<"m", "m">>)},
     self : {NoHeader, <<"P", "K">>, <<"i", "d">>, <<"-", "1">>, <<"x">>}]

ResolverNext == \E r \in ResolverRequests : CallResolveAgentCountry(r)

ResolverSpec == Init /\ [][ResolverNext]_vars

-----------------------------------------------------------------------------
(* part_000: the rejection a refused decision is answered with *)

\* The rejection with the code the error catalog lists for a trust
\* violation in place of the policy's own.
buildCiiRejectionResponseCatalogCode(requestId, decision) ==
    [http |-> 200, kind |-> "error", id |-> requestId,
     code |-> -32015,
     message |-> [reference |-> "Request rejected by CII trust policy"],
     data |-> [ciiScore |-> decision.policy.ciiScore,
               tier |-> decision.policy.tier,
               country |-> decision.countryCode,
               countrySource |-> decision.countrySource,
               policy |-> "GATRA-POL-CII-CRITICAL"]]

\* The rejection with the policy's code and no default for a policy that
\* has none.
buildCiiRejectionResponseNoDefault(requestId, decision) ==
    [http |-> 200, kind |-> "error", id |-> requestId,
     code |-> IF decision.policy.errorCode # Null
              THEN decision.policy.errorCode[1] ELSE 0,
     message |-> IF decision.policy.errorMessage # Null
                 THEN decision.policy.errorMessage[1]
                 ELSE [reference |-> "Request rejected by CII trust policy"],
     data |-> [ciiScore |-> decision.policy.ciiScore,
               tier |-> decision.policy.tier,
               country |-> decision.countryCode,
               countrySource |-> decision.countrySource,
               policy |-> "GATRA-POL-CII-CRITICAL"]]

\* The JSON-RPC error built from a decision: the policy's code and message
\* (or their defaults) and the decision's data.
buildCiiRejectionResponse(requestId, decision) ==
    [http |-> 200, kind |-> "error", id |-> requestId,
     code |-> IF decision.policy.errorCode # Null
              THEN decision.policy.errorCode[1] ELSE -32050,
     message |-> IF decision.policy.errorMessage # Null
                 THEN decision.policy.errorMessage[1]
                 ELSE [reference |-> "Request rejected by CII trust policy"],
     data |-> [ciiScore |-> decision.policy.ciiScore,
               tier |-> decision.policy.tier,
               country |-> decision.countryCode,
               countrySource |-> decision.countrySource,
               policy |-> "GATRA-POL-CII-CRITICAL"]]

-----------------------------------------------------------------------------
(* The rejection builder alone: called on the decision of any request,     *)
(* refused or not, between score updates                                   *)

RequestIds == {Some("req-001"), Some("req-002")}

CallBuildCiiRejectionResponse(requestId, req, allowlist, agentId) ==
    /\ \E decision \in {evaluateCiiTrustPolicy(req, allowlist, agentId)} :
           call' = [op |-> "buildCiiRejectionResponse",
                    requestId |-> requestId, decision |-> decision,
                    result |-> buildCiiRejectionResponse(requestId, decision)]
    /\ UNCHANGED <<COUNTRY_CII_OVERRIDES, taskVars, gateVars, flightVars>>

RejectionNext ==
    \/ \E id \in RequestIds, r \in EvalRequests, al \in Allowlists,
          a \in AgentIds :
           CallBuildCiiRejectionResponse(id, r, al, a)
    \/ \E c \in UpdateCodes, s \in UpdateScores : updateCiiScore(c, s)

RejectionSpec == Init /\ [][RejectionNext]_vars

-----------------------------------------------------------------------------
(* The policy table and the rate limits alone: policies built and limits   *)
(* looked up for any score and tier, between score updates                 *)

TrustTiers == {STANDARD, ELEVATED, CRITICAL}

CallGetTierRateLimits(tier) ==
    /\ call' = [op |-> "getTierRateLimits", tier |-> tier,
                result |-> getTierRateLimits(tier)]
    /\ UNCHANGED <<COUNTRY_CII_OVERRIDES, taskVars, gateVars, flightVars>>

StrictnessNext ==
    \/ \E c \in {MM, <<"s", "g">>}, s \in ScoreSet : CallBuildTrustPolicy(c, s)
    \/ \E t \in TrustTiers : CallGetTierRateLimits(t)
    \/ \E c \in UpdateCodes, s \in UpdateScores : updateCiiScore(c, s)

StrictnessSpec == Init /\ [][StrictnessNext]_vars

-----------------------------------------------------------------------------
(* The admission gates in front of the handler.  The handler under          *)
(* part_001 runs no gate; the six rejecting gates are modelled from the     *)
(* specification (section 4.3) and the figures of the infrastructure        *)
(* document (Phase 3), around the trust decision and the handler of the     *)
(* source.  The clock counts milliseconds here.                             *)

ERR_AUTH_REQUIRED == -32010
ERR_RATE_LIMITED == -32011
ERR_PAYLOAD_TOO_LARGE == -32012
ERR_INJECTION == -32013
ERR_DUPLICATE == -32014

AuthModes == {"required", "optional", "disabled"}
API_KEYS == {"key-1"}
CII_ALLOWLIST == {"agent:a"}

RateWindowMs == 60 * 1000
MaxPayloadBytes == 64 * 1024
ReplayWindowMs == 5 * 60 * 1000

\* The requests a client may send in one rate window.
RateBudget == 2

GateOrder == <<"rate", "auth", "trust", "payload", "replay", "injection">>

\* The rule catalog: an id, a severity, and the token that stands for a
\* text the rule's pattern matches.
InjectionRules ==
    { [id |-> "ignore_instructions", severity |-> "critical", token |-> "ignore-previous"],
      [id |-> "system_prompt_leak", severity |-> "critical", token |-> "show-system-prompt"],
      [id |-> "jailbreak", severity |-> "high", token |-> "DAN"],
      [id |-> "output_manipulation", severity |-> "high", token |-> "respond-only-in"],
      [id |-> "encoding_evasion", severity |-> "high", token |-> "base64"],
      [id |-> "data_exfil", severity |-> "medium", token |-> "send-to-url"],
      [id |-> "pretend_mode", severity |-> "medium", token |-> "pretend"] }

\* The rules evaluated on a text that match it: the medium ones only under
\* a deep scan.
MatchedRules(text, deep) ==
    {r \in InjectionRules :
        /\ deep \/ r.severity # "medium"
        /\ \E i \in 1..Len(text) : text[i] = r.token}

\* A decision rule that rejects on any high-severity match.
InjectionDetectedAnyHigh(text, deep) ==
    \E r \in MatchedRules(text, deep) : r.severity \in {"critical", "high"}

InjectionDetected(text, deep) ==
    LET m == MatchedRules(text, deep)
    IN  \/ \E r \in m : r.severity = "critical"
        \/ Cardinality({r \in m : r.severity = "high"}) >= 2

\* The text the injection gate scans: the text parts of a message/send.
ScannedText(rpc) ==
    IF /\ rpc.body.kind = "json"
       /\ rpc.body.method = Some("message/send")
       /\ rpc.body.params # Null
       /\ rpc.body.params[1].message # Null
       /\ rpc.body.params[1].message[1].parts # Null
       /\ rpc.body.params[1].message[1].parts[1].isArray
    THEN LET parts == SelectSeq(rpc.body.params[1].message[1].parts[1].items,
                                LAMBDA p : p # Null)
         IN  JoinText([i \in 1..Len(parts) |-> parts[i][1]])
    ELSE <<>>

\* A client's rate window at the time of a request: a new one when it has
\* none or the old one has run out.
WindowOf(client) ==
    IF client \in DOMAIN rateWindows
           /\ now - rateWindows[client].start < RateWindowMs
    THEN rateWindows[client]
    ELSE [start |-> now, count |-> 0]

\* A nonce recorded at any time: a store whose entries never expire.
SeenEver(nonce) == nonce \in DOMAIN nonces

\* A nonce recorded less than the replay window ago.
SeenRecently(nonce) ==
    nonce \in DOMAIN nonces /\ now - nonces[nonce] < ReplayWindowMs

\* The trust decision of a gated request.
DecisionOf(g) == evaluateCiiTrustPolicy(g.origin, CII_ALLOWLIST, g.agentId)

\* Whether a gate, taken alone, rejects the request whose trust decision
\* is d.
Rejects(gate, g, d) ==
    CASE gate = "rate" -> WindowOf(g.client).count >= RateBudget
      [] gate = "auth" -> authMode = "required" /\
                              (g.key = Null \/ g.key[1] \notin API_KEYS)
      [] gate = "trust" -> ~d.allowed
      [] gate = "payload" -> g.bytes > MaxPayloadBytes
      [] gate = "replay" -> g.nonce # Null /\ SeenRecently(g.nonce[1])
      [] gate = "injection" ->
             InjectionDetected(ScannedText(g.rpc), d.policy.deepInjectionScan)

\* The position of the last gate that rejects, 0 when none does: a
\* pipeline that runs every gate and reports the last failure.
LastRejecting(g, d) ==
    LET bad == {i \in 1..Len(GateOrder) : Rejects(GateOrder[i], g, d)}
    IN  IF bad = {} THEN 0 ELSE CHOOSE i \in bad : \A j \in bad : i >= j

\* The position of the first gate that rejects, 0 when none does.
FirstRejecting(g, d) ==
    LET bad == {i \in 1..Len(GateOrder) : Rejects(GateOrder[i], g, d)}
    IN  IF bad = {} THEN 0 ELSE CHOOSE i \in bad : \A j \in bad : i <= j

\* The error a gate answers with.
GateError(gate, g, d) ==
    CASE gate = "rate" -> jsonRpcError(g.rpc.body.id, ERR_RATE_LIMITED)
      [] gate = "auth" -> jsonRpcError(g.rpc.body.id, ERR_AUTH_REQUIRED)
      [] gate = "trust" -> buildCiiRejectionResponse(g.rpc.body.id, d)
      [] gate = "payload" -> jsonRpcError(g.rpc.body.id, ERR_PAYLOAD_TOO_LARGE)
      [] gate = "replay" -> jsonRpcError(g.rpc.body.id, ERR_DUPLICATE)
      [] gate = "injection" -> jsonRpcError(g.rpc.body.id, ERR_INJECTION)

-----------------------------------------------------------------------------
(* The gated endpoint: one action per request, and the clock *)

\* One request through the gates: the gates that pass leave their mark, the
\* first that rejects answers, and only a request no gate rejects reaches
\* the handler.
GatedRequest(g) ==
    \E d \in {DecisionOf(g)} :
    \E first \in {FirstRejecting(g, d)} :
    \E o \in {IF first = 0 THEN handler(g.rpc)
               ELSE Outcome(GateError(GateOrder[first], g, d), tasks, uidCount)} :
    LET w == WindowOf(g.client)
    IN  /\ rateWindows' =
               IF first = 1 THEN rateWindows
               ELSE [c \in DOMAIN rateWindows \cup {g.client} |->
                        IF c = g.client THEN [w EXCEPT !.count = @ + 1]
                        ELSE rateWindows[c]]
        /\ nonces' =
               IF first \in 1..5 \/ g.nonce = Null THEN nonces
               ELSE [n \in DOMAIN nonces \cup {g.nonce[1]} |->
                        IF n = g.nonce[1] THEN now ELSE nonces[n]]
        /\ tasks' = o.tasks
        /\ uidCount' = o.uidCount
        /\ response' = [req |-> g.rpc, answer |-> o.response, gated |-> g,
                        gates |-> IF first = 0 THEN GateOrder
                                  ELSE SubSeq(GateOrder, 1, first)]
        /\ UNCHANGED <<now, policyVars, authMode, flightVars>>

\* The instants at which requests arrive.
GateInstants == {0, ReplayWindowMs - 1, ReplayWindowMs}

GateTick ==
    /\ \E t \in GateInstants : t > now
    /\ now' = CHOOSE t \in GateInstants :
                  t > now /\ \A u \in GateInstants : u > now => t <= u
    /\ UNCHANGED <<tasks, uidCount, response, policyVars, gateVars, flightVars>>

NoOrigin ==
    [vercel |-> NoHeader, cf |-> NoHeader, self |-> NoHeader,
     agentCardUrl |-> NoUrl]
From(code) == [NoOrigin EXCEPT !.vercel = code]

GateSend(text) ==
    Send(SendParams(Message(<<TextPart(text)>>, Null, Some("t1")), Null, Null))

\* A request every gate admits at first: a key, no country signal, 512
\* bytes, no nonce.
Plain(rpc) ==
    [client |-> "ip1", key |-> Some("key-1"), origin |-> NoOrigin,
     agentId |-> "agent:z", bytes |-> 512, nonce |-> Null, rpc |-> rpc]
Hello == Plain(GateSend(<<"hello">>))

GateRequests ==
    { Hello,
      [Hello EXCEPT !.key = Null],
      [Hello EXCEPT !.key = Some("key-9")],
      [Hello EXCEPT !.origin = From(MM)],
      [Hello EXCEPT !.origin = From(MM), !.agentId = "agent:a"],
      [Hello EXCEPT !.origin = From(PH)],
      [Hello EXCEPT !.bytes = MaxPayloadBytes],
      [Hello EXCEPT !.bytes = MaxPayloadBytes + 1],
      [Hello EXCEPT !.nonce = Some("n1")],
      Plain(GateSend(<<"ignore-previous">>)),
      Plain(GateSend(<<"DAN", "base64">>)),
      Plain(GateSend(<<"DAN", "DAN">>)),
      Plain(GateSend(<<"respond-only-in", "pretend", "send-to-url">>)),
      [Plain(GateSend(<<"pretend", "send-to-url", "base64">>))
           EXCEPT !.origin = From(PH)],
      Plain(Get(Some("t1"), Null)),
      Plain(Cancel(Some("t1"))),
      [Plain(Get(Some("t1"), Null)) EXCEPT !.origin = From(MM)],
      [Hello EXCEPT !.key = Null, !.origin = From(MM)],
      [Hello EXCEPT !.origin = From(MM), !.bytes = MaxPayloadBytes + 1],
      [Hello EXCEPT !.bytes = MaxPayloadBytes + 1, !.nonce = Some("n1")],
      [Plain(GateSend(<<"DAN", "base64">>)) EXCEPT !.nonce = Some("n1")],
      [Plain(GateSend(<<"ignore-previous">>))
           EXCEPT !.key = Null, !.nonce = Some("n1")] }

GateInit ==
    /\ COUNTRY_CII_OVERRIDES = InitialScores
    /\ call = [op |-> "none"]
    /\ tasks = <<>>
    /\ uidCount = 0
    /\ now = 0
    /\ response = [req |-> [httpMethod |-> "NONE", body |-> [kind |-> "none"]],
                   answer |-> [http |-> 0, kind |-> "none"]]
    /\ authMode \in AuthModes
    /\ rateWindows = <<>>
    /\ nonces = <<>>
    /\ inflight = [s \in Slots |-> Idle]

GateNext ==
    \/ \E g \in GateRequests : GatedRequest(g)
    \/ GateTick

GateSpec == GateInit /\ [][GateNext]_vars

-----------------------------------------------------------------------------
(* Claims about the policy engine *)

\* The tier the thresholds of the specification give a score.
TierOf(s) ==
    IF s <= 34 * Unit THEN STANDARD
    ELSE IF s <= 60 * Unit THEN ELEVATED
    ELSE CRITICAL

\* C1: evaluateCiiTrustPolicy returns allowed = false exactly when the tier
\* of the resolved country's score is CRITICAL and the allowlist holds
\* neither the caller's agentId nor "*".  STANDARD and ELEVATED decisions are
\* allowed; a CRITICAL decision is allowed with auditLevel forensic for an
\* allowlisted agent, and refused with errorCode -32050 otherwise.
C1_AllowedIffNotCriticalOrAllowlisted ==
    call.op = "evaluateCiiTrustPolicy" =>
        LET d == call.result
            country == resolveAgentCountry(call.req).countryCode
            tier == TierOf(getCiiScore(country))
            listed == call.agentId \in call.allowlist \/ "*" \in call.allowlist
        IN  /\ d.policy.tier = tier
            /\ d.allowed = FALSE <=> (tier = CRITICAL /\ ~listed)
            /\ tier \in {STANDARD, ELEVATED} => d.allowed = TRUE
            /\ tier = CRITICAL /\ listed =>
                   d.allowed = TRUE /\ d.policy.auditLevel = "forensic"
            /\ tier = CRITICAL /\ ~listed =>
                   d.allowed = FALSE /\ d.policy.errorCode = Some(-32050)

\* Both CRITICAL cases have been decided: here the wildcard admits an agent
\* from a CRITICAL country.
C1_Witness ==
    /\ call.op = "evaluateCiiTrustPolicy"
    /\ call.result.policy.tier = CRITICAL
    /\ call.agentId \notin call.allowlist
    /\ "*" \in call.allowlist
    /\ call.result.allowed = TRUE

\* C2: ciiScoreToTier(s) is STANDARD for s <= 34, ELEVATED for 34 < s <= 60,
\* CRITICAL for s > 60, the boundaries exact.
C2_TierThresholds ==
    call.op = "ciiScoreToTier" =>
        /\ call.score <= 34 * Unit => call.result = STANDARD
        /\ (call.score > 34 * Unit /\ call.score <= 60 * Unit) =>
               call.result = ELEVATED
        /\ call.score > 60 * Unit => call.result = CRITICAL

\* The upper boundary: 60.0 has been classified ELEVATED.
C2_Witness ==
    /\ call.op = "ciiScoreToTier"
    /\ call.score = 60 * Unit
    /\ call.result = ELEVATED

\* The fixed part of each tier's record, as the policy table gives it:
\* requireJWS, requireAdminAllowlist, deepInjectionScan, maxRequestsPerHour,
\* auditLevel.
PolicyRow(tier) ==
    CASE tier = STANDARD -> <<FALSE, FALSE, FALSE, 100, "standard">>
      [] tier = ELEVATED -> <<TRUE, FALSE, TRUE, 30, "enhanced">>
      [] tier = CRITICAL -> <<TRUE, TRUE, TRUE, 10, "forensic">>

\* C3: buildTrustPolicy(c, s) returns the record fixed for the tier of s,
\* with country c and ciiScore s; errorCode is -32050 for CRITICAL and null
\* otherwise; the CRITICAL errorMessage names c and s to one decimal place
\* (within 0.05 of s).
C3_PolicyRecordPerTier ==
    call.op = "buildTrustPolicy" =>
        LET p == call.result
            tier == TierOf(call.score)
        IN  /\ DOMAIN p = {"tier", "ciiScore", "country", "requireJWS",
                           "requireAdminAllowlist", "deepInjectionScan",
                           "maxRequestsPerHour", "errorCode", "errorMessage",
                           "auditLevel"}
            /\ p.tier = tier
            /\ p.country = call.country
            /\ p.ciiScore = call.score
            /\ <<p.requireJWS, p.requireAdminAllowlist, p.deepInjectionScan,
                 p.maxRequestsPerHour, p.auditLevel>> = PolicyRow(tier)
            /\ p.errorCode # Null <=> tier = CRITICAL
            /\ tier # CRITICAL => p.errorMessage = Null
            /\ tier = CRITICAL =>
                   /\ p.errorCode = Some(-32050)
                   /\ p.errorMessage # Null
                   /\ p.errorMessage[1].country = call.country
                   /\ LET shown == p.errorMessage[1].cii
                          value == shown.whole * Unit + Tenths(shown.frac)
                      IN  /\ ~shown.neg
                          /\ shown.frac \in 0..9
                          /\ 2 * (value - call.score) <= Tenths(1)
                          /\ 2 * (call.score - value) <= Tenths(1)

\* A CRITICAL record whose message shows a rounded score: 60.0000001 as 60.0.
C3_Witness ==
    /\ call.op = "buildTrustPolicy"
    /\ call.score = 60 * Unit + 1
    /\ call.result.errorCode = Some(-32050)
    /\ call.result.errorMessage[1].cii = [neg |-> FALSE, whole |-> 60, frac |-> 0]

\* C5: a request with no usable country signal (resolution XX, unknown) is
\* evaluated with score 0.0 and tier STANDARD and is allowed, also after any
\* sequence of updateCiiScore calls.
C5_UnknownOriginFailsOpen ==
    (call.op = "evaluateCiiTrustPolicy" /\ call.result.countrySource = "unknown") =>
        /\ call.result.countryCode = XX
        /\ call.result.policy.ciiScore = 0
        /\ call.result.policy.tier = STANDARD
        /\ call.result.allowed = TRUE

\* Two codes that differ in the case of their letters only.
LetterIndex(c) ==
    IF IsLower(c) THEN CHOOSE i \in 1..26 : Lowers[i] = c
    ELSE IF IsUpper(c) THEN CHOOSE i \in 1..26 : Uppers[i] = c
    ELSE 0

SameIgnoringCase(a, b) ==
    /\ Len(a) = Len(b)
    /\ \A i \in 1..Len(a) :
           \/ a[i] = b[i]
           \/ (LetterIndex(a[i]) # 0 /\ LetterIndex(a[i]) = LetterIndex(b[i]))

\* C6: getCiiScore(c) returns the score stored for c, compared without
\* regard to letter case, and 0.0 (hence tier STANDARD) for a code absent
\* from the table.
C6_LookupIgnoresCaseAndDefaultsToZero ==
    call.op = "getCiiScore" =>
        LET stored == {k \in DOMAIN COUNTRY_CII_OVERRIDES :
                          SameIgnoringCase(k, call.countryCode)}
        IN  /\ \A k \in stored : call.result = COUNTRY_CII_OVERRIDES[k]
            /\ stored = {} =>
                   call.result = 0 /\ ciiScoreToTier(call.result) = STANDARD
            /\ \A c \in CodeSet :
                   SameIgnoringCase(c, call.countryCode) =>
                       getCiiScore(c) = call.result

\* A lower-case lookup has returned the score stored under the upper-case key.
C6_Witness ==
    /\ call.op = "getCiiScore"
    /\ call.countryCode = <<"m", "m">>
    /\ MM \in DOMAIN COUNTRY_CII_OVERRIDES
    /\ call.result = COUNTRY_CII_OVERRIDES[MM]
    /\ call.result # 0

-----------------------------------------------------------------------------
(* Claims about the country resolver *)

\* What the resolver takes for a usable signal: a header value of exactly two
\* characters (the secondary geo header: other than the upstream's XX), a URL
\* whose lower-cased hostname ends in a listed ccTLD.
ListedTlds == {Tld(TLD_TO_COUNTRY[i]) : i \in 1..Len(TLD_TO_COUNTRY)}

UrlTld(url) ==
    LET h == toLowerCase(url.hostname)
    IN  SubSeq(h, Len(h) - 2, Len(h))

Usable(rank, req) ==
    CASE rank = 1 -> Len(req.vercel) = 2
      [] rank = 2 -> Len(req.cf) = 2 /\ req.cf # XX
      [] rank = 3 -> /\ req.agentCardUrl.kind = "url"
                     /\ Len(req.agentCardUrl.hostname) >= 3
                     /\ UrlTld(req.agentCardUrl) \in ListedTlds
      [] rank = 4 -> Len(req.self) = 2

SourceRank(source) ==
    CASE source = "vercel-geo" -> 1
      [] source = "cf-geo" -> 2
      [] source = "tld" -> 3
      [] source = "self-reported" -> 4
      [] source = "unknown" -> 5

IsLetter(c) == IsLower(c) \/ IsUpper(c)
TwoLetters(s) == Len(s) = 2 /\ IsLetter(s[1]) /\ IsLetter(s[2])

\* C7: a geo or self-reported header value is accepted only if it is exactly
\* two alphabetic characters, anything else being skipped, and every country
\* code returned is two upper-case letters.
C7_HeadersAcceptedOnlyIfTwoLetters ==
    call.op = "resolveAgentCountry" =>
        /\ call.result.source = "vercel-geo" => TwoLetters(call.req.vercel)
        /\ call.result.source = "cf-geo" => TwoLetters(call.req.cf)
        /\ call.result.source = "self-reported" => TwoLetters(call.req.self)
        /\ Len(call.result.countryCode) = 2
        /\ \A i \in 1..Len(call.result.countryCode) :
               IsUpper(call.result.countryCode[i])

-----------------------------------------------------------------------------
(* Claims about the task engine *)

\* The last step was a request (the clock stood still) to cancel task t.
CancelStep(t) == now' = now /\ response'.req = Cancel(Some(t))

\* C8: tasks/cancel on a stored task whose state is completed, canceled,
\* failed or rejected is answered with error -32002 and leaves the task, its
\* state and its timestamp as they were; an id that is not in the table is
\* answered with the different error -32001.
C8_TerminalTaskNotCancelable ==
    [][\A t \in NamedIds :
          CancelStep(t) =>
              IF HasTask(tasks, t)
              THEN MapGet(tasks, t).status.state
                           \in {"completed", "canceled", "failed", "rejected"} =>
                       /\ response'.answer = jsonRpcError(Some("r3"), -32002)
                       /\ HasTask(tasks', t)
                       /\ MapGet(tasks', t).status = MapGet(tasks, t).status
                       /\ tasks' = tasks
              ELSE /\ response'.answer = jsonRpcError(Some("r3"), -32001)
                   /\ response'.answer.code # -32002]_vars

\* A completed task stamped before the clock moved has been refused
\* cancellation after it moved, and still carries its first timestamp.
C8_Witness ==
    /\ response.req = Cancel(Some("t1"))
    /\ response.answer = jsonRpcError(Some("r3"), -32002)
    /\ HasTask(tasks, "t1")
    /\ MapGet(tasks, "t1").status.state = "completed"
    /\ MapGet(tasks, "t1").status.timestamp = 0
    /\ now = 1

\* C10: whatever message/send, tasks/get and tasks/cancel requests have been
\* answered, the task table holds at most 50 tasks.
C10_TableHoldsAtMostFifty == Len(tasks) <= 50

\* More than 50 different tasks have been stored, the oldest has been
\* evicted, and the table is full.
C10_Witness ==
    /\ uidCount > 50
    /\ response.req = CallerSend(Null)
    /\ response.answer.kind = "result"
    /\ ~HasTask(tasks, uid(1))
    /\ Len(tasks) = 50

\* The ids of a task table, in the table's order.
Ids(ts) == [i \in 1..Len(ts) |-> ts[i].id]

\* The step answered a JSON-RPC request for `method` with a result.
Answered(method) ==
    /\ now' = now
    /\ response'.req.body.kind = "json"
    /\ response'.req.body.method = Some(method)
    /\ response'.answer.kind = "result"

\* C11: a message/send that stores a task under an id the table does not
\* hold, when the table already holds 50 tasks, removes the first entry of
\* the table (the id inserted earliest among those present) and nothing
\* else, every other task keeping its content and order.  A message/send
\* under an id the table holds replaces the task in place, and a tasks/get
\* changes nothing: neither moves a task, grows the table or evicts.
C11_EvictsEarliestInsertedOnly ==
    [][/\ Answered("message/send") =>
              LET id == response'.answer.result.id
              IN  IF HasTask(tasks, id)
                  THEN Ids(tasks') = Ids(tasks)
                  ELSE IF Len(tasks) = 50
                  THEN /\ Len(tasks') = 50
                       /\ \A i \in 1..49 : tasks'[i] = tasks[i + 1]
                       /\ tasks'[50].id = id
                  ELSE /\ Len(tasks') = Len(tasks) + 1
                       /\ \A i \in 1..Len(tasks) : tasks'[i] = tasks[i]
                       /\ tasks'[Len(tasks')].id = id
       /\ Answered("tasks/get") => tasks' = tasks]_vars

\* The caller's task went in first and was replaced in place once the table
\* was full; the next new task evicted it, and the one after that evicted
\* the first task with a generated id.
C11_Witness ==
    /\ Len(tasks) = 50
    /\ uidCount = 51
    /\ ~HasTask(tasks, "t1")
    /\ ~HasTask(tasks, uid(1))
    /\ tasks[1].id = uid(2)
    /\ tasks[50].id = uid(51)
    /\ response.req = CallerSend(Null)

\* The last answered request was a message/send that returned a task.
SendReturnedTask ==
    /\ response.req.body.kind = "json"
    /\ response.req.body.method = Some("message/send")
    /\ response.answer.kind = "result"

\* The step is a tasks/get for the task the last message/send returned.
GetOfTaskJustSent ==
    /\ SendReturnedTask
    /\ now' = now
    /\ response'.req.body.kind = "json"
    /\ response'.req.body.method = Some("tasks/get")
    /\ response'.req.body.params # Null
    /\ response'.req.body.params[1].id = Some(response.answer.result.id)

\* What a successful message/send returns and stores: a completed task with
\* a result message and one artifact, under the caller's message.taskId or
\* else under an id no stored task has.
SendStoresCompletedTask ==
    Answered("message/send") =>
        LET t == response'.answer.result
            m == response'.req.body.params[1].message[1]
        IN  /\ t.status.state = "completed"
            /\ t.status.message.role = "agent"
            /\ Len(t.artifacts) = 1
            /\ m.taskId # Null => t.id = m.taskId[1] /\ uidCount' = uidCount
            /\ m.taskId = Null =>
                   /\ ~HasTask(tasks, t.id)
                   /\ uidCount' = uidCount + 1
                   /\ t.id = uid(uidCount')
            /\ HasTask(tasks', t.id)
            /\ MapGet(tasks', t.id) = t

\* C12 as stated: every successful message/send returns and stores such a
\* task, and a tasks/get on its id issued next returns that same task.
C12_GetReturnsSameTask ==
    [][/\ SendStoresCompletedTask
       /\ GetOfTaskJustSent =>
              /\ response'.answer.kind = "result"
              /\ response'.answer.result = response.answer.result]_vars

\* C12, amended: the tasks/get issued next returns that same task, without
\* its history when the tasks/get asks for historyLength 0.
C12_GetReturnsTaskUpToHistory ==
    [][/\ SendStoresCompletedTask
       /\ GetOfTaskJustSent =>
              /\ response'.answer.kind = "result"
              /\ response'.answer.result =
                     IF response'.req.body.params[1].historyLength = Some(0)
                     THEN [response.answer.result EXCEPT !.history = Null]
                     ELSE response.answer.result
              /\ tasks' = tasks]_vars

\* A task stored with its history under a generated id has been read back
\* with historyLength 0: the task returned has no history, the stored one
\* still has.
C12_Witness ==
    /\ response.req = Get(Some(uid(1)), Some(0))
    /\ response.answer.kind = "result"
    /\ response.answer.result.id = uid(1)
    /\ response.answer.result.history = Null
    /\ HasTask(tasks, uid(1))
    /\ MapGet(tasks, uid(1)).history # Null
    /\ Len(MapGet(tasks, uid(1)).artifacts) = 1

-----------------------------------------------------------------------------
(* Claims about the admission gates *)

\* The last request went through the gates.
Gated == "gated" \in DOMAIN response

\* The code each gate answers with, as the error catalog gives it.
GateCode(gate) ==
    CASE gate = "rate" -> -32011
      [] gate = "auth" -> -32010
      [] gate = "trust" -> -32050
      [] gate = "payload" -> -32012
      [] gate = "replay" -> -32014
      [] gate = "injection" -> -32013

\* C13: the gates run in the order rate limit, authentication, trust
\* policy, payload size, replay suppression, injection detection.  The gates
\* that ran are a prefix of that order, every one before the last passed,
\* and when some gate rejects the request the last that ran is the first
\* that rejects: its own error is the answer, no later gate leaves a mark
\* (no nonce recorded by a request stopped before replay suppression, no
\* count taken by one the rate limit stops), and the task table is as it
\* was.  A request no gate rejects runs all six and gets the handler's
\* answer.
C13_GatesRunInOrderAndStopAtFirstReject ==
    [][now' = now =>
          LET g == response'.gated
              ran == response'.gates
              order == <<"rate", "auth", "trust", "payload", "replay",
                         "injection">>
              last == Len(ran)
          IN  \A d \in {DecisionOf(g)} :
              \A rejecting \in {{i \in 1..6 : Rejects(order[i], g, d)}} :
              /\ last \in 1..6
              /\ ran = SubSeq(order, 1, last)
              /\ \A i \in 1..(last - 1) : i \notin rejecting
              /\ rejecting # {} =>
                     /\ last \in rejecting
                     /\ response'.answer.kind = "error"
                     /\ response'.answer.code = GateCode(order[last])
                     /\ tasks' = tasks
                     /\ uidCount' = uidCount
                     /\ last < 5 => nonces' = nonces
                     /\ last = 1 => rateWindows' = rateWindows
              /\ rejecting = {} =>
                     /\ last = 6
                     /\ response'.answer = handler(g.rpc).response
              /\ last > 1 =>
                     /\ g.client \in DOMAIN rateWindows'
                     /\ rateWindows'[g.client].count = WindowOf(g.client).count + 1
          ]_vars

\* With authentication required, a request with no key, a nonce and a
\* critical injection pattern has been stopped at authentication: the rate
\* window counted it, the nonce is not recorded, no task exists.
C13_Witness ==
    /\ Gated
    /\ authMode = "required"
    /\ response.gated = [Plain(GateSend(<<"ignore-previous">>))
                             EXCEPT !.key = Null, !.nonce = Some("n1")]
    /\ response.gates = <<"rate", "auth">>
    /\ response.answer.code = -32010
    /\ rateWindows["ip1"].count = 1
    /\ "n1" \notin DOMAIN nonces
    /\ tasks = <<>>

RulesHit(text, severity) ==
    {r.id : r \in {r \in InjectionRules :
                      /\ r.severity = severity
                      /\ \E i \in 1..Len(text) : text[i] = r.token}}

\* C15: a message/send that reaches injection detection is rejected by it,
\* with the injection error and the task table as it was, exactly when
\* its text matches at least one critical-severity rule or at least two
\* distinct high-severity rules; with one high-severity rule or medium
\* ones only, whatever their number, the gate passes it to the handler.
C15_InjectionDecisionRule ==
    [][now' = now =>
          LET g == response'.gated
              text == ScannedText(g.rpc)
              bad == \/ RulesHit(text, "critical") # {}
                     \/ Cardinality(RulesHit(text, "high")) >= 2
          IN  \A d \in {DecisionOf(g)} :
              (/\ g.rpc.body.kind = "json"
               /\ g.rpc.body.method = Some("message/send")
               /\ \A i \in 1..5 : ~Rejects(GateOrder[i], g, d)) =>
                  /\ bad =>
                         /\ response'.answer.kind = "error"
                         /\ response'.answer.code = -32013
                         /\ tasks' = tasks
                         /\ uidCount' = uidCount
                  /\ ~bad =>
                         /\ response'.answer = handler(g.rpc).response
                         /\ response'.answer.kind = "result"
                         /\ response'.answer.result.kind = "task"
          ]_vars

\* A message with two distinct high-severity patterns and no critical one
\* has been rejected by injection detection and no task exists.
C15_Witness ==
    /\ Gated
    /\ response.gated = Plain(GateSend(<<"DAN", "base64">>))
    /\ RulesHit(ScannedText(response.req), "critical") = {}
    /\ RulesHit(ScannedText(response.req), "high") = {"jailbreak", "encoding_evasion"}
    /\ response.gates[6] = "injection"
    /\ response.answer.kind = "error"
    /\ response.answer.code = -32013
    /\ tasks = <<>>

\* C16: of a request with a nonce that reaches replay suppression: when
\* the nonce was recorded less than five minutes before, the request is
\* rejected as a duplicate and neither the nonce store nor the task table
\* changes; otherwise (never recorded, or recorded five minutes ago or
\* more) the gate admits it, the request goes on to injection detection,
\* and the nonce is recorded with the arrival time, the other nonces
\* keeping theirs.
C16_NonceRejectedOnlyWithinWindow ==
    [][now' = now =>
          LET g == response'.gated
          IN  \A d \in {DecisionOf(g)} :
              (/\ g.nonce # Null
               /\ \A i \in 1..4 : ~Rejects(GateOrder[i], g, d)) =>
                  LET n == g.nonce[1]
                      recent == /\ n \in DOMAIN nonces
                                /\ now - nonces[n] < 5 * 60 * 1000
                  IN  /\ recent =>
                             /\ response'.answer.kind = "error"
                             /\ response'.answer.code = -32014
                             /\ response'.gates[Len(response'.gates)] = "replay"
                             /\ nonces' = nonces
                             /\ tasks' = tasks
                      /\ ~recent =>
                             /\ Len(response'.gates) = 6
                             /\ n \in DOMAIN nonces'
                             /\ nonces'[n] = now
                             /\ \A m \in DOMAIN nonces :
                                    m # n => m \in DOMAIN nonces' /\ nonces'[m] = nonces[m]
                             /\ response'.answer.kind = "error" =>
                                    response'.answer.code # -32014
          ]_vars

\* One millisecond short of five minutes after the nonce n1 was recorded, a
\* request carrying it has been rejected as a duplicate: the record keeps
\* its first arrival time.
C16_Witness ==
    /\ Gated
    /\ now = 5 * 60 * 1000 - 1
    /\ response.gated = [Hello EXCEPT !.nonce = Some("n1")]
    /\ response.answer.kind = "error"
    /\ response.answer.code = -32014
    /\ response.gates = SubSeq(GateOrder, 1, 5)
    /\ "n1" \in DOMAIN nonces
    /\ nonces["n1"] = 0

-----------------------------------------------------------------------------
(* Claims about the envelope and the method table *)

\* The body of the last POST request and what it was answered with.
Posted == response.req.httpMethod = "POST"
ValidEnvelope(b) ==
    /\ b.kind = "json"
    /\ b.jsonrpc = Some("2.0")
    /\ b.method # Null
    /\ b.id # Null
UnsupportedByName ==
    {"message/stream", "tasks/resubscribe",
     "tasks/pushNotificationConfig/set", "tasks/pushNotificationConfig/get",
     "tasks/pushNotificationConfig/list", "tasks/pushNotificationConfig/delete"}
SupportedByName == {"message/send", "tasks/get", "tasks/cancel"}
AnsweredWith(code) ==
    response.answer.kind = "error" /\ response.answer.code = code

\* C17: of a POST request: an unparsable body is answered -32700; a body
\* that parses and whose jsonrpc is not "2.0", or that has no method or no
\* id, is answered -32600 whatever method it names; a valid envelope whose
\* method is neither supported nor explicitly unsupported is answered
\* -32601.  The three codes differ pairwise and each is the answer of its
\* own kind of request only.
C17_EnvelopeErrorsInFixedPrecedence ==
    Posted =>
        LET b == response.req.body
            unparsable == b.kind = "unparsable"
            invalid == b.kind # "unparsable" /\ ~ValidEnvelope(b)
            unknown == /\ ValidEnvelope(b)
                       /\ b.method[1] \notin SupportedByName \cup UnsupportedByName
        IN  /\ unparsable <=> AnsweredWith(-32700)
            /\ invalid <=> AnsweredWith(-32600)
            /\ unknown <=> AnsweredWith(-32601)
            /\ ERR_PARSE # ERR_INVALID_REQ
            /\ ERR_PARSE # ERR_METHOD_NOT_FOUND
            /\ ERR_INVALID_REQ # ERR_METHOD_NOT_FOUND
            /\ <<ERR_PARSE, ERR_INVALID_REQ, ERR_METHOD_NOT_FOUND>>
                   = <<-32700, -32600, -32601>>

\* A request with the protocol tag "1.0" naming a method the endpoint does
\* not know has been answered invalid request, not method not found.
C17_Witness ==
    /\ Posted
    /\ response.req.body.kind = "json"
    /\ response.req.body.jsonrpc = Some("1.0")
    /\ response.req.body.method = Some("agent/getCard")
    /\ response.req.body.id # Null
    /\ AnsweredWith(-32600)
    /\ response.answer.id = response.req.body.id

\* C18: message/stream, tasks/resubscribe and the four
\* tasks/pushNotificationConfig methods, in a valid envelope, are answered
\* with the error -32004, whatever their params and whatever the task table
\* holds, and the request leaves the task table and the id counter as they
\* were.
C18_UnsupportedMethodsAnswerUnsupported ==
    [][(/\ now' = now
        /\ response'.req.httpMethod = "POST"
        /\ ValidEnvelope(response'.req.body)
        /\ response'.req.body.method[1] \in UnsupportedByName) =>
           /\ response'.answer.kind = "error"
           /\ response'.answer.code = -32004
           /\ response'.answer.id = response'.req.body.id
           /\ tasks' = tasks
           /\ uidCount' = uidCount
      ]_vars

\* A tasks/pushNotificationConfig/set naming a stored task has been
\* answered unsupported operation.
C18_Witness ==
    /\ Posted
    /\ ValidEnvelope(response.req.body)
    /\ response.req.body.method = Some("tasks/pushNotificationConfig/set")
    /\ response.req.body.params # Null
    /\ AnsweredWith(-32004)
    /\ \E i \in 1..Len(tasks) : Some(tasks[i].id) = response.req.body.params[1].id

-----------------------------------------------------------------------------
(* Claims about routing *)

\* The text and the explicit skill id of the last message/send, a request
\* with one text part.
SentText == response.req.body.params[1].message[1].parts[1].items[1][1].text[1]
SentSkillId ==
    IF response.req.body.params[1].metadata = Null THEN Null
    ELSE response.req.body.params[1].metadata[1].skillId
CataloguedSkills ==
    {"anomaly-detection", "triage-analysis", "containment-response",
     "continuous-learning", "reporting-visualization", "ioc-lookup"}

\* The skill a text is matched to: the first category, in the order
\* ioc-lookup, triage-analysis, containment-response,
\* reporting-visualization, continuous-learning, that matches, and
\* anomaly-detection when none does.
FirstMatchingCategory(text) ==
    LET order == <<"ioc-lookup", "triage-analysis", "containment-response",
                   "reporting-visualization", "continuous-learning">>
        hit == {i \in 1..5 :
                   CASE i = 1 -> IocPattern(text)
                     [] i = 2 -> TriagePattern(text)
                     [] i = 3 -> HasWord(text, ContainWords)
                     [] i = 4 -> HasWord(text, ReportWords)
                     [] i = 5 -> HasWord(text, LearnWords)}
    IN  IF hit = {} THEN "anomaly-detection"
        ELSE order[CHOOSE i \in hit : \A j \in hit : i <= j]

\* C19: a message/send with a text is answered with a task routed to the
\* skill metadata.skillId names when that is one of the catalogued skills,
\* whatever the text; otherwise to the first category, in the fixed order,
\* that the text matches, and to anomaly-detection when it matches none;
\* with no skill id, a text with an IPv4-shaped token is routed to
\* ioc-lookup whatever else it holds.
C19_RoutingBySkillIdThenKeywordOrder ==
    (response.req.httpMethod = "POST"
        /\ response.req.body.method = Some("message/send")) =>
        /\ response.answer.kind = "result"
        /\ response.answer.result.metadata.gatraSkill =
               IF SentSkillId # Null /\ SentSkillId[1] \in CataloguedSkills
               THEN SentSkillId[1]
               ELSE FirstMatchingCategory(SentText)
        /\ (SentSkillId = Null /\ HasWord(SentText, Ipv4Words)) =>
               response.answer.result.metadata.gatraSkill = "ioc-lookup"

-----------------------------------------------------------------------------
(* Claims about runtime score updates *)

\* The score on record for a country, whatever the letter case of the code.
ScoreOnRecord(code) ==
    LET key == toUpperCase(code)
    IN  IF key \in DOMAIN COUNTRY_CII_OVERRIDES
        THEN COUNTRY_CII_OVERRIDES[key] ELSE 0

\* C20: updateCiiScore(c, s) puts s on record for c taken in upper case and
\* leaves every other country's entry as it was; no other call changes the
\* table; and every getCiiScore and evaluateCiiTrustPolicy answers from
\* the table as it is at the call, in whatever letter case the country is
\* given: the score, the tier of that score and the decision that tier and
\* the allowlist give.  So each lookup for c after an update follows that
\* update until the next one.
C20_LookupsFollowTheLatestUpdate ==
    /\ [](call.op = "getCiiScore" =>
              call.result = ScoreOnRecord(call.countryCode))
    /\ [](call.op = "evaluateCiiTrustPolicy" =>
              LET d == call.result
                  s == ScoreOnRecord(d.countryCode)
              IN  /\ d.countryCode = resolveAgentCountry(call.req).countryCode
                  /\ d.policy.ciiScore = s
                  /\ d.policy.tier = TierOf(s)
                  /\ d.allowed <=>
                         \/ TierOf(s) # CRITICAL
                         \/ call.agentId \in call.allowlist
                         \/ "*" \in call.allowlist)
    /\ [][IF call'.op = "updateCiiScore"
          THEN LET key == toUpperCase(call'.countryCode)
               IN  /\ DOMAIN COUNTRY_CII_OVERRIDES' =
                          DOMAIN COUNTRY_CII_OVERRIDES \cup {key}
                   /\ COUNTRY_CII_OVERRIDES'[key] = call'.score
                   /\ \A k \in DOMAIN COUNTRY_CII_OVERRIDES :
                          k # key =>
                              COUNTRY_CII_OVERRIDES'[k] = COUNTRY_CII_OVERRIDES[k]
          ELSE COUNTRY_CII_OVERRIDES' = COUNTRY_CII_OVERRIDES
        ]_vars

\* After updateCiiScore('mm', 34.0000001), a request from MM by an agent
\* on no allowlist has been evaluated ELEVATED and allowed, Myanmar's
\* first score being CRITICAL and the Philippines' entry as it was.
C20_Witness ==
    /\ call.op = "evaluateCiiTrustPolicy"
    /\ call.req.vercel = MM
    /\ call.allowlist = {}
    /\ COUNTRY_CII_OVERRIDES[MM] = 34 * Unit + 1
    /\ InitialScores[MM] = Tenths(728)
    /\ COUNTRY_CII_OVERRIDES[PH] = InitialScores[PH]
    /\ call.result.policy.ciiScore = 34 * Unit + 1
    /\ call.result.policy.tier = ELEVATED
    /\ call.result.allowed

-----------------------------------------------------------------------------
(* Claims about the score store, faults and purity *)

\* C21: every score in the CII score store is non-negative, and so is
\* every score getCiiScore returns and every score a policy carries,
\* whatever updateCiiScore calls were made.
C21_ScoresAreNonNegative ==
    /\ \A k \in DOMAIN COUNTRY_CII_OVERRIDES : COUNTRY_CII_OVERRIDES[k] >= 0
    /\ call.op = "getCiiScore" => call.result >= 0
    /\ call.op = "evaluateCiiTrustPolicy" => call.result.policy.ciiScore >= 0

\* The last request was a message/send in a valid envelope whose parts list
\* holds an element that is null.
SentNullPart ==
    /\ Posted
    /\ ValidEnvelope(response.req.body)
    /\ response.req.body.method = Some("message/send")
    /\ response.req.body.params # Null
    /\ response.req.body.params[1].message # Null
    /\ LET parts == response.req.body.params[1].message[1].parts
       IN  /\ parts # Null
           /\ parts[1].isArray
           /\ \E i \in 1..Len(parts[1].items) : parts[1].items[i] = Null

\* C22: every POST request is answered with a JSON-RPC response, a result
\* or an error, never with an unhandled failure; a message/send whose
\* parts list holds a null element is answered with the error -32603, and a
\* message/send with no params with the error -32602.
C22_FaultsAnswerInternalError ==
    Posted =>
        /\ response.answer.kind \in {"result", "error"}
        /\ SentNullPart => AnsweredWith(-32603)
        /\ (/\ ValidEnvelope(response.req.body)
            /\ response.req.body.method = Some("message/send")
            /\ response.req.body.params = Null) => AnsweredWith(-32602)

\* C23: buildCiiRejectionResponse(id, decision) returns an error envelope
\* with the id it was given and the code -32050, whose data carries the
\* decision's score, tier, country code and country source as they are.
C23_RejectionCarriesIdCodeAndDecision ==
    call.op = "buildCiiRejectionResponse" =>
        /\ call.result.kind = "error"
        /\ call.result.id = call.requestId
        /\ call.result.code = -32050
        /\ call.result.data.ciiScore = call.decision.policy.ciiScore
        /\ call.result.data.tier = call.decision.policy.tier
        /\ call.result.data.country = call.decision.countryCode
        /\ call.result.data.countrySource = call.decision.countrySource

\* The rejection for req-001 has been built from the decision on a request
\* from Myanmar: CRITICAL, score 72.8, source vercel-geo.
C23_Witness ==
    /\ call.op = "buildCiiRejectionResponse"
    /\ call.requestId = Some("req-001")
    /\ ~call.decision.allowed
    /\ call.result.id = Some("req-001")
    /\ call.result.code = -32050
    /\ call.result.data.ciiScore = Tenths(728)
    /\ call.result.data.tier = CRITICAL
    /\ call.result.data.country = MM
    /\ call.result.data.countrySource = "vercel-geo"

\* C24: buildTrustPolicy is a function of its arguments alone: no step, be
\* it a score update, an evaluation or any other call, changes what it
\* returns for a country and a score, so two calls with the same arguments
\* return the same record whatever happened in between; the record a call
\* returns is that value, and the call leaves the score store, the task
\* table and the gate stores as they were.
C24_BuildTrustPolicyIsPure ==
    [][/\ \A c \in {MM, <<"s", "g">>}, s \in ScoreSet :
              buildTrustPolicy(c, s)' = buildTrustPolicy(c, s)
       /\ call'.op = "buildTrustPolicy" =>
              /\ call'.result = buildTrustPolicy(call'.country, call'.score)
              /\ UNCHANGED <<COUNTRY_CII_OVERRIDES, taskVars, gateVars>>
      ]_vars

\* buildTrustPolicy(MM, 72.8) has returned the CRITICAL policy with score
\* 72.8 after Myanmar's score on record was updated to another value.
C24_Witness ==
    /\ call.op = "buildTrustPolicy"
    /\ call.country = MM
    /\ call.score = Tenths(728)
    /\ COUNTRY_CII_OVERRIDES[MM] = 34 * Unit + 1
    /\ call.result.tier = CRITICAL
    /\ call.result.ciiScore = Tenths(728)

-----------------------------------------------------------------------------
(* Claims about the task table as a whole *)

\* The method a request names, "" when it names none.
MethodOf(req) ==
    IF req.body.kind = "json" /\ req.body.method # Null
    THEN req.body.method[1] ELSE ""

\* C25: a request changes the task table only when it is a message/send
\* answered with a task, which then replaces the stored task of the same
\* id or is added at the end with at most the first task evicted, or a
\* tasks/cancel answered with a task, which then differs from the stored
\* one in state and timestamp only.  A tasks/get, with historyLength 0 or
\* not, and every request answered with an error leave the table as it
\* was.
C25_TableChangesOnlyBySendOrCancel ==
    [][now' = now =>
          LET req == response'.req
              answer == response'.answer
              T == answer.result
          IN  /\ (MethodOf(req) = "tasks/get" \/ answer.kind = "error") =>
                     tasks' = tasks
              /\ tasks' # tasks =>
                     /\ answer.kind = "result"
                     /\ MethodOf(req) \in {"message/send", "tasks/cancel"}
                     /\ MethodOf(req) = "message/send" =>
                            \/ \E i \in 1..Len(tasks) :
                                   /\ tasks[i].id = T.id
                                   /\ tasks' = [tasks EXCEPT ![i] = T]
                            \/ /\ \A i \in 1..Len(tasks) : tasks[i].id # T.id
                               /\ \/ tasks' = Append(tasks, T)
                                  \/ tasks' = Tail(Append(tasks, T))
                     /\ MethodOf(req) = "tasks/cancel" =>
                            \E i \in 1..Len(tasks) :
                                /\ tasks[i].id = T.id
                                /\ tasks' = [tasks EXCEPT ![i] = T]
                                /\ T = [tasks[i] EXCEPT
                                           !.status.state = T.status.state,
                                           !.status.timestamp = T.status.timestamp]
          ]_vars

\* A tasks/get with historyLength 0 has been answered with a task without
\* history while the stored task keeps its history.
C25_Witness ==
    /\ Posted
    /\ MethodOf(response.req) = "tasks/get"
    /\ response.req.body.params # Null
    /\ response.req.body.params[1].historyLength = Some(0)
    /\ response.answer.kind = "result"
    /\ response.answer.result.history = Null
    /\ \E i \in 1..Len(tasks) :
           /\ tasks[i].id = response.answer.result.id
           /\ tasks[i].history # Null

-----------------------------------------------------------------------------
(* Claims about requests in flight together *)

\* The slot whose request completes in this step, if any.
Completes(slot) == inflight[slot].pc # "idle" /\ inflight'[slot].pc = "idle"

\* C26: with several requests in flight on one instance, each request's
\* access to the task table is one atomic step.  The table never holds more
\* than 50 tasks in a state another request can observe; the table and the
\* answer change only when one request completes; and the completing
\* request leaves exactly the table, and returns exactly the answer, that
\* handler computes from the table as the last completed request left it,
\* so no update is lost and every read sees the most recent write.
C26_TableAccessIsAtomic ==
    /\ [](Len(tasks) <= TaskCapacity)
    /\ [][ /\ (tasks' # tasks \/ response' # response)
                => \E slot \in Slots : Completes(slot)
           /\ \A slot \in Slots :
                Completes(slot) =>
                    \E o \in {handler(inflight[slot].req)} :
                        /\ tasks' = o.tasks
                        /\ response' = [req |-> inflight[slot].req,
                                        answer |-> o.response] ]_vars

\* A message/send has just evicted the oldest task from a full table while
\* another request, which named that task, is still suspended.
C26_Witness ==
    /\ Len(tasks) = TaskCapacity
    /\ tasks[1].id = "uid-2"
    /\ response.req.httpMethod = "POST"
    /\ response.req.body.method = Some("message/send")
    /\ response.answer.kind = "result"
    /\ \E slot \in Slots :
           /\ inflight[slot].pc = "reading"
           /\ inflight[slot].req = Get(Some("uid-1"), Null)

-----------------------------------------------------------------------------
(* Claims about the unknown country and the routed skill *)

\* C27: resolveAgentCountry returns the code XX only together with the
\* source unknown: no header value, in any letter case, and no agent-card
\* URL makes it return XX as a vercel-geo, cf-geo, tld or self-reported
\* country.
C27_UnknownCodeOnlyFromUnknownSource ==
    (call.op = "resolveAgentCountry" /\ call.result.countryCode = XX)
        => call.result.source = "unknown"

\* The states a task of the table, or a task in the last answer, is in.
StatesSeen ==
    {tasks[i].status.state : i \in 1..Len(tasks)}
        \cup (IF Posted /\ response.answer.kind = "result"
              THEN {response.answer.result.status.state} ELSE {})

\* C28: every task in the table, and every task an answer carries, is in
\* state completed, none is ever submitted, working or canceled; only a
\* message/send adds a task id to the table; and a tasks/cancel that names
\* a stored task is never answered with a task.
C28_EveryTaskIsBornCompleted ==
    /\ [](StatesSeen \subseteq {"completed"})
    /\ [][now' = now =>
             /\ StoredIds' \ StoredIds # {} =>
                    /\ MethodOf(response'.req) = "message/send"
                    /\ response'.answer.kind = "result"
                    /\ StoredIds' \ StoredIds = {response'.answer.result.id}
             /\ \A t \in StoredIds :
                    response'.req = Cancel(Some(t)) =>
                        /\ response'.answer.kind = "error"
                        /\ tasks' = tasks]_vars

\* Two tasks were created by message/send, one under the endpoint's id and
\* one under the caller's, and a cancel of the endpoint's has been refused:
\* both are stored completed.
C28_Witness ==
    /\ StoredIds = {"uid-1", "t1"}
    /\ \A i \in 1..Len(tasks) : tasks[i].status.state = "completed"
    /\ response.req = Cancel(Some("uid-1"))
    /\ response.answer.kind = "error"

-----------------------------------------------------------------------------
(* Claims about the order of the tiers *)

\* How risky a tier is: STANDARD below ELEVATED below CRITICAL.
Risk(tier) ==
    CASE tier = STANDARD -> 0 [] tier = ELEVATED -> 1 [] tier = CRITICAL -> 2

\* Limits a are at least as generous as limits b.
AtLeastAsGenerous(a, b) ==
    a.maxPerMinute >= b.maxPerMinute /\ a.maxBurst >= b.maxBurst

\* C29: the policy is monotone in the score.  For scores s1 <= s2 the tier
\* of s1 is not riskier than that of s2, maxRequestsPerHour at s1 is at
\* least that at s2, each of requireJWS, deepInjectionScan and
\* requireAdminAllowlist set at s1 is set at s2, and the maxPerMinute and
\* maxBurst of getTierRateLimits for the tier of s1 are at least those for
\* the tier of s2; the limits of a tier are at least those of any riskier
\* tier.
C29_StrictnessIsMonotoneInScore ==
    /\ call.op = "buildTrustPolicy" =>
           \A s1 \in ScoreSet :
               s1 <= call.score =>
                   LET p1 == buildTrustPolicy(call.country, s1)
                       p2 == call.result
                   IN  /\ Risk(p1.tier) <= Risk(p2.tier)
                       /\ p1.maxRequestsPerHour >= p2.maxRequestsPerHour
                       /\ p1.requireJWS => p2.requireJWS
                       /\ p1.deepInjectionScan => p2.deepInjectionScan
                       /\ p1.requireAdminAllowlist => p2.requireAdminAllowlist
                       /\ AtLeastAsGenerous(getTierRateLimits(p1.tier),
                                            getTierRateLimits(p2.tier))
    /\ call.op = "getTierRateLimits" =>
           \A t1 \in TrustTiers :
               Risk(t1) <= Risk(call.tier) =>
                   AtLeastAsGenerous(getTierRateLimits(t1), call.result)

\* A policy has been built just above the upper threshold: one ten-millionth
\* of a point below it everything is strictly more generous but the JWS and
\* scan requirements, which are already set.
C29_Witness ==
    /\ call.op = "buildTrustPolicy"
    /\ call.score = 60 * Unit + 1
    /\ call.result.tier = CRITICAL
    /\ \E p1 \in {buildTrustPolicy(call.country, 60 * Unit)} :
           /\ p1.tier = ELEVATED
           /\ p1.maxRequestsPerHour > call.result.maxRequestsPerHour
           /\ p1.requireJWS /\ ~p1.requireAdminAllowlist
           /\ getTierRateLimits(p1.tier).maxBurst
                  > getTierRateLimits(call.result.tier).maxBurst

-----------------------------------------------------------------------------
(* Claims about the recorded skill *)

\* C30: every message/send that passes validation is answered with a task
\* whose metadata.gatraSkill is one of the six catalogued skill ids and
\* whose gatraAgent is that skill's agent id, and the same task is stored;
\* a metadata.skillId that is not one of the six is ignored, the text alone
\* deciding the skill, and never makes the request fail.
C30_RecordedSkillIsCatalogued ==
    (response.req.httpMethod = "POST"
        /\ response.req.body.method = Some("message/send")) =>
        /\ response.answer.kind = "result"
        /\ \E T \in {response.answer.result} :
               /\ T.metadata.gatraSkill \in CataloguedSkills
               /\ T.metadata.gatraAgent = SKILL_MAP[T.metadata.gatraSkill]
               /\ HasTask(tasks, T.id) /\ MapGet(tasks, T.id) = T
               /\ (SentSkillId # Null /\ SentSkillId[1] \notin CataloguedSkills)
                      => T.metadata.gatraSkill = FirstMatchingCategory(SentText)

=============================================================================
